---- MODULE Spec2Model ----
(***************************************************************************)
(* Model of the LLM provider pool of the API gateway:                      *)
(*   - HttpxTransport.request      (app/clients/gemini.py)                 *)
(*   - GeminiClient._request_with_retry (app/clients/gemini.py)            *)
(*   - OpenRouterPoolClient        (app/clients/openrouter_pool.py)        *)
(* CircuitBreaker, RateLimiter and KeyPool are imported by the pool but    *)
(* their modules are not part of the source tree; they are modelled from   *)
(* sections 4.1-4.3 of the specification.                                  *)
(*                                                                         *)
(* The clients are asyncio coroutines on one event loop: a step of a call   *)
(* runs from one await that suspends (a held lock, the wait for a token,   *)
(* the HTTP exchange, asyncio.sleep) to the next.                          *)
(*                                                                         *)
(* Time is counted in seconds.  Instants are stored relative to "now"      *)
(* (remaining sleep, age of the breaker's opening), and the clock moves in *)
(* steps of TimeStep seconds.                                              *)
(***************************************************************************)
EXTENDS Integers, Sequences, FiniteSets, TLC

VARIABLES
    \* ---- HTTP transport (one request) ----
    txResp,          \* the HTTP outcome handed to HttpxTransport.request
    txResult,        \* what request() returned or raised; NoResult before
    \* ---- provider client used standalone (one call) ----
    clMax,           \* GeminiClient.max_retries
    clPc,            \* "request" | "sleep" | "done"
    clAttempt,       \* loop variable `attempt`
    clSleeps,        \* delays passed to asyncio.sleep, in order
    clRequests,      \* number of transport.request calls
    clResult,        \* returned value / raised error
    clLog,           \* kinds of the outcomes of the requests made, in order
    clLast,          \* outcome of the latest transport.request
    \* ---- pool client ----
    numKeys,         \* len(api_keys)
    maxRetries,      \* OpenRouterPoolClient.max_retries
    pc,              \* per call: position in _execute_with_pool
    attempts,        \* per call: local `attempts`
    key,             \* per call: key returned by _select_key (0 = none yet)
    cattempt,        \* per call: `attempt` of the wrapped client's retry loop
    lastError,       \* per call: local `last_error`
    result,          \* per call: returned value / raised error
    requests,        \* per call: number of HTTP requests issued
    timer,           \* per call: seconds of sleep still to go
    outcome,         \* per call: outcome of its latest HTTP exchange
    responses,       \* per call: number of HTTP exchanges completed
    breaker,         \* per key: CircuitBreaker record
    tokens,          \* per key: RateLimiter tokens
    grants,          \* per key: tokens handed out since the clock last advanced
    totalRequests,   \* per key: KeyPool counter
    totalSuccesses,  \* per key: KeyPool counter
    totalFailures,   \* per key: KeyPool counter
    cursor,          \* KeyPool round-robin cursor (mod numKeys)
    locked,          \* OpenRouterPoolClient._lock is held
    \* ---- VPN bootstrap ----
    vpnEnv,          \* the environment variables bootstrap_from_env reads
    routes,          \* the host's routing table
    ifUp,            \* the tunnel interface is UP
    tunStarts,       \* tunnel-up commands run so far
    tunCmd,          \* latest call: how its tunnel-up command ran
    ifSeen,          \* latest call: what its checks of the interface gave
    wgConfig,        \* the lines of the file at WG_CONFIG_PATH
    hyPort,          \* the local SOCKS5 port accepts connections
    hyProcs,         \* hysteria client processes left running
    captured,        \* latest call: what _get_default_route returned
    ipLog,           \* latest call: commands of configure_split_tunnel
    dnsUsed,         \* latest call: the DNS answers it got, per domain
    vpnTrace,        \* latest call: the stages it went through
    vpnCalls,        \* bootstrap_from_env calls made
    vpnResult,       \* latest call: "ok" | "skipped" | "error"; "none" before
    routesBefore,    \* the routing table when the latest call began
    \* ---- VPN health endpoint (one request) ----
    hIn,             \* settings and host conditions of the request
    hReport,         \* what gather_vpn_health returned
    hResponse,       \* the HTTP response of vpn_health
    hRan             \* the collectors and probes gather_vpn_health ran

txVars == <<txResp, txResult>>
clVars == <<clMax, clPc, clAttempt, clSleeps, clRequests, clResult, clLog, clLast>>
cfgVars == <<numKeys, maxRetries>>
histVars == <<outcome, responses>>
callVars == <<pc, attempts, key, cattempt, lastError, result, requests, timer,
              histVars>>
keyVars == <<breaker, tokens, grants, totalRequests, totalSuccesses, totalFailures,
             cursor, locked>>
poolVars == <<cfgVars, callVars, keyVars>>
vpnVars == <<vpnEnv, wgConfig, routes, ifUp, tunStarts, tunCmd, ifSeen,
             hyPort, hyProcs, captured, ipLog,
             dnsUsed, vpnTrace, vpnCalls, vpnResult, routesBefore>>
healthVars == <<hIn, hReport, hResponse, hRan>>
sysVars == <<vpnVars, healthVars>>
vars == <<txVars, clVars, poolVars, sysVars>>

(***************************************************************************)
(* Small helpers                                                           *)
(***************************************************************************)
Max(a, b) == IF a >= b THEN a ELSE b
Min(a, b) == IF a <= b THEN a ELSE b

None == -1          \* Python None for optional integers
NoResult == [kind |-> "none", status |-> None, retryAfter |-> None]

\* Python truthiness of an optional int: None and 0 are false.
Truthy(x) == x # None /\ x # 0

(***************************************************************************)
(* Text: a string is a tuple of one-character strings.                     *)
(***************************************************************************)
UpperCase == <<"A","B","C","D","E","F","G","H","I","J","K","L","M",
               "N","O","P","Q","R","S","T","U","V","W","X","Y","Z">>
LowerCase == <<"a","b","c","d","e","f","g","h","i","j","k","l","m",
               "n","o","p","q","r","s","t","u","v","w","x","y","z">>

LowerChar(c) ==
    IF \E i \in 1..26 : UpperCase[i] = c
    THEN LowerCase[CHOOSE i \in 1..26 : UpperCase[i] = c]
    ELSE c

\* str.lower()
Lower(s) == [i \in 1..Len(s) |-> LowerChar(s[i])]

\* needle in hay
Contains(needle, hay) ==
    \E i \in 1..(Len(hay) - Len(needle) + 1) :
        SubSeq(hay, i, i + Len(needle) - 1) = needle

Digits == <<"0","1","2","3","4","5","6","7","8","9">>
IsDigit(c) == \E i \in 1..10 : Digits[i] = c
DigitVal(c) == (CHOOSE i \in 1..10 : Digits[i] = c) - 1

RECURSIVE DecVal(_, _)
DecVal(s, acc) ==
    IF s = <<>> THEN acc ELSE DecVal(Tail(s), acc * 10 + DigitVal(Head(s)))

\* int(header) with ValueError caught: None when the text is not a decimal
\* number (an HTTP-date, an empty value).
ParseRetryAfter(h) ==
    IF Len(h) > 0 /\ \A i \in 1..Len(h) : IsDigit(h[i])
    THEN DecVal(h, 0)
    ELSE None

\* response.json(): a recogniser for the JSON values  1 | {} | [] | [value].
\* ParseValue returns the index after the value that starts at i, 0 on error.
RECURSIVE ParseValue(_, _)
ParseValue(b, i) ==
    IF i > Len(b) THEN 0
    ELSE IF b[i] = "1" THEN i + 1
    ELSE IF b[i] = "{" THEN (IF i + 1 <= Len(b) /\ b[i + 1] = "}" THEN i + 2 ELSE 0)
    ELSE IF b[i] = "[" THEN
        IF i + 1 <= Len(b) /\ b[i + 1] = "]" THEN i + 2
        ELSE LET j == ParseValue(b, i + 1)
             IN IF j # 0 /\ j <= Len(b) /\ b[j] = "]" THEN j + 1 ELSE 0
    ELSE 0

IsJson(b) == ParseValue(b, 1) = Len(b) + 1

(***************************************************************************)
(* HttpxTransport.request: HTTP outcome -> returned value or raised error  *)
(***************************************************************************)
NoHeader == <<"-">>    \* "retry-after" not in e.response.headers

Err(kind, status, retryAfter) ==
    [kind |-> kind, status |-> status, retryAfter |-> retryAfter]

KwQuota     == <<"q","u","o","t","a">>
KwApiKey    == <<"a","p","i"," ","k","e","y">>
KwRateLimit == <<"r","a","t","e"," ","l","i","m","i","t">>
KwPerKey    == <<"p","e","r"," ","k","e","y">>

\* Variant that compares the body without lowering it first.
IsKeySpecificMut(body) ==
    LET response_text == body
    IN \/ Contains(KwQuota, response_text)
       \/ Contains(KwApiKey, response_text)
       \/ Contains(KwRateLimit, response_text)
       \/ Contains(KwPerKey, response_text)

\* response_text = e.response.text.lower(); any(keyword in response_text ...)
IsKeySpecific(body) ==
    LET response_text == Lower(body)
    IN \/ Contains(KwQuota, response_text)
       \/ Contains(KwApiKey, response_text)
       \/ Contains(KwRateLimit, response_text)
       \/ Contains(KwPerKey, response_text)

\* except httpx.HTTPStatusError: the if/elif chain, in the code's order
MapStatusError(status_code, body, header) ==
    LET retry_after == IF header = NoHeader THEN None ELSE ParseRetryAfter(header)
    IN IF status_code = 429 THEN
            IF IsKeySpecific(body)
            THEN Err("RateLimit", 429, retry_after)
            ELSE Err("Service", 429, None)
       ELSE IF status_code = 503 THEN Err("Service", 503, None)
       ELSE IF status_code = 401 \/ status_code = 403 THEN Err("Auth", 401, None)
       ELSE IF 400 <= status_code /\ status_code < 500 THEN Err("Validation", 422, None)
       ELSE IF status_code >= 500 THEN Err("Server", status_code, None)
       ELSE Err("Client", status_code, None)

\* JSONDecodeError is not an httpx exception, so no except clause of
\* request() catches it: it leaves request() as it is.
JsonFailure(resp) == Err("JSONDecodeError", None, None)

Transport(resp) ==
    IF resp.kind = "timeout" THEN Err("Timeout", None, None)
    ELSE IF resp.kind = "neterr" THEN Err("Client", None, None)
    ELSE IF 200 <= resp.status /\ resp.status < 300 THEN
        IF IsJson(resp.body) THEN Err("OK", resp.status, None) ELSE JsonFailure(resp)
    ELSE MapStatusError(resp.status, resp.body, resp.header)

TypedKinds == {"RateLimit", "Service", "Server", "Timeout", "Auth", "Validation", "Client"}

RetryableKinds == {"RateLimit", "Service", "Server", "Timeout"}

(***************************************************************************)
(* HTTP outcomes offered to the transport                                  *)
(***************************************************************************)
TxStatuses == {200, 201, 304, 400, 401, 403, 404, 422, 429, 500, 502, 503, 504}

BodyCores == {
    <<>>,
    <<"q","u","o","t","a">>,
    <<"Q","u","o","t","a">>,
    <<"Q","U","O","T","A">>,
    <<"q","u","o","t">>,
    <<"q","u","o"," ","t","a">>,
    <<"A","P","I"," ","k","e","y">>,
    <<"a","p","i","_","k","e","y">>,
    <<"a","p","i","k","e","y">>,
    <<"R","a","t","e"," ","L","i","m","i","t">>,
    <<"r","a","t","e","-","l","i","m","i","t">>,
    <<"p","e","r"," ","k","e","y">>,
    <<"P","E","R"," ","K","E","Y">>,
    <<"p","e","r","k","e","y">>,
    <<"b","u","s","y">>,
    <<"{","}">>,
    <<"[","1","]">>,
    <<"[","[","]","]">>,
    <<"1">>,
    <<"{">>,
    <<"[","1">>,
    <<"<","h",">">> }

BodyPrefixes == { <<>>, <<"[">>, <<"x"," ">> }
BodySuffixes == { <<>>, <<"]">>, <<"!">> }

TxBodies == { p \o c \o s : p \in BodyPrefixes, c \in BodyCores, s \in BodySuffixes }

TxHeaders == { NoHeader, <<>>, <<"0">>, <<"1","0">>, <<"4","0">>, <<"a","b">>, <<"1","s">> }

HttpResponse(status, body, header) ==
    [kind |-> "response", status |-> status, body |-> body, header |-> header]
HttpTimeout == [kind |-> "timeout", status |-> 0, body |-> <<>>, header |-> NoHeader]
HttpNetErr  == [kind |-> "neterr", status |-> 0, body |-> <<>>, header |-> NoHeader]

TxResponses ==
    {HttpTimeout, HttpNetErr} \cup
    { HttpResponse(st, b, h) : st \in TxStatuses, b \in TxBodies, h \in TxHeaders }

\* The outcomes the stubbed provider may give to a client or pool request.
JsonBody  == <<"{","}">>
HtmlBody  == <<"<","h",">">>
QuotaBody == <<"Q","u","o","t","a">>
BusyBody  == <<"b","u","s","y">>

StubResponses == {
    HttpResponse(200, JsonBody, NoHeader),
    HttpResponse(200, HtmlBody, NoHeader),
    HttpResponse(429, QuotaBody, NoHeader),
    HttpResponse(429, QuotaBody, <<"1","0">>),
    HttpResponse(429, QuotaBody, <<"4","0">>),
    HttpResponse(429, BusyBody, NoHeader),
    HttpResponse(503, BusyBody, NoHeader),
    HttpResponse(500, BusyBody, NoHeader),
    HttpResponse(401, <<>>, NoHeader),
    HttpResponse(404, <<>>, NoHeader),
    HttpTimeout,
    HttpNetErr }

\* What transport.request returns or raises for them
StubOutcomes == { Transport(resp) : resp \in StubResponses }

(***************************************************************************)
(* GeminiClient._request_with_retry                                        *)
(***************************************************************************)
\* Variant that reads max_retries as retries after a first attempt.
ClientAttemptsMut(max_retries) == max_retries + 1

\* attempts = max(1, self.max_retries)
ClientAttempts(max_retries) == Max(1, max_retries)

\* Variant whose exponent counts attempts from 1.
BackoffDelayMut(attempt) == 2 ^ (attempt + 1)

\* delay = 2**attempt
BackoffDelay(attempt) == 2 ^ attempt

\* fixed delay for GeminiServiceError
ServiceDelay == 30

\* One pass through the try/except of the loop body for the outcome o of
\* transport.request: return, raise, or sleep `delay` and go round again.
ClientHandle(o, attempt, max_retries) ==
    LET is_last_attempt == attempt = ClientAttempts(max_retries) - 1
    IN IF o.kind = "OK" THEN [do |-> "return", delay |-> 0]
       ELSE IF o.kind = "Service" THEN
            IF is_last_attempt THEN [do |-> "raise", delay |-> 0]
            ELSE [do |-> "sleep", delay |-> ServiceDelay]
       ELSE IF o.kind \in {"RateLimit", "Server", "Timeout"} THEN
            IF is_last_attempt THEN [do |-> "raise", delay |-> 0]
            ELSE [do |-> "sleep",
                  delay |-> IF o.kind = "RateLimit" /\ Truthy(o.retryAfter)
                            THEN o.retryAfter
                            ELSE BackoffDelay(attempt)]
       ELSE [do |-> "raise", delay |-> 0]

\* Largest max_retries given to a standalone client.
MaxClientRetries == 4

ClInit ==
    /\ clMax \in 0..MaxClientRetries
    /\ clPc = "request"
    /\ clAttempt = 0
    /\ clSleeps = <<>>
    /\ clRequests = 0
    /\ clResult = NoResult
    /\ clLog = <<>>
    /\ clLast = NoResult

\* What the provider may answer to a standalone client: the stubbed
\* responses and a key-quota 429 whose Retry-After header reads 0.
ClientOutcomes ==
    StubOutcomes \cup {Transport(HttpResponse(429, QuotaBody, <<"0">>))}

\* await self.transport.request(...) and the except clause that handles it
ClRequest ==
    /\ clPc = "request"
    /\ \E o \in ClientOutcomes :
        LET h == ClientHandle(o, clAttempt, clMax)
        IN /\ clRequests' = clRequests + 1
           /\ clLog' = Append(clLog, o.kind)
           /\ clLast' = o
           /\ IF h.do = "sleep"
              THEN /\ clSleeps' = Append(clSleeps, h.delay)
                   /\ clPc' = "sleep"
                   /\ clResult' = clResult
              ELSE /\ clSleeps' = clSleeps
                   /\ clPc' = "done"
                   /\ clResult' = o
    /\ UNCHANGED <<clMax, clAttempt>>
    /\ UNCHANGED <<txVars, poolVars, sysVars>>

\* asyncio.sleep(delay) is over: next iteration of `for attempt in range(attempts)`
ClWake ==
    /\ clPc = "sleep"
    /\ clAttempt' = clAttempt + 1
    /\ clPc' = "request"
    /\ UNCHANGED <<clMax, clSleeps, clRequests, clResult, clLog, clLast>>
    /\ UNCHANGED <<txVars, poolVars, sysVars>>

TxIdle == txResp = HttpTimeout /\ txResult = NoResult
ClIdle ==
    /\ clMax = 0 /\ clPc = "done" /\ clAttempt = 0
    /\ clSleeps = <<>> /\ clRequests = 0 /\ clResult = NoResult /\ clLog = <<>>
    /\ clLast = NoResult

TxInit ==
    /\ txResp \in TxResponses
    /\ txResult = NoResult

\* HttpxTransport.request
TxRequest ==
    /\ txResult = NoResult
    /\ txResult' = Transport(txResp)
    /\ UNCHANGED txResp
    /\ UNCHANGED <<clVars, poolVars, sysVars>>

(***************************************************************************)
(* CircuitBreaker (one per key)                                            *)
(***************************************************************************)
\* circuit_breaker_failure_threshold, circuit_breaker_recovery_timeout
FailureThreshold == 5
RecoveryTimeout == 60

\* asyncio.sleep(30) after a service error in the pool
PoolServiceSleep == 30

\* The clock advances in steps of TimeStep seconds.
TimeStep == PoolServiceSleep

NewBreaker == [state |-> "Closed", failures |-> 0, age |-> None]

\* The Open state with the recovery timeout not yet elapsed.
IsOpenNow(b) == b.state = "Open" /\ b.age < RecoveryTimeout

\* Reading `state`: an Open breaker whose recovery timeout has elapsed turns
\* HalfOpen and admits this reader; while the probe is out, readers see Open.
BreakerRead(b) ==
    IF b.state = "Open" /\ b.age >= RecoveryTimeout
    THEN [seen |-> "HalfOpen", cb |-> [b EXCEPT !.state = "HalfOpen"]]
    ELSE IF b.state = "HalfOpen"
    THEN [seen |-> "Open", cb |-> b]
    ELSE [seen |-> b.state, cb |-> b]

RecordSuccess(b) ==
    IF b.state \in {"Closed", "HalfOpen"}
    THEN [b EXCEPT !.state = "Closed", !.failures = 0]
    ELSE b

\* Variant that opens the breaker on the first failure.
RecordFailureMut(b) ==
    IF b.state \in {"HalfOpen", "Closed"}
    THEN [state |-> "Open", failures |-> b.failures + 1, age |-> 0]
    ELSE [b EXCEPT !.failures = b.failures + 1]

RecordFailure(b) ==
    IF b.state = "HalfOpen"
    THEN [state |-> "Open", failures |-> b.failures + 1, age |-> 0]
    ELSE IF b.state = "Closed" /\ b.failures + 1 >= FailureThreshold
    THEN [state |-> "Open", failures |-> b.failures + 1, age |-> 0]
    ELSE [b EXCEPT !.failures = b.failures + 1]

(***************************************************************************)
(* RateLimiter (one per key)                                               *)
(***************************************************************************)
\* qps_per_key = 1 / TimeStep: one token accrues per clock step.
TokensPerStep == 1

\* burst_size = max(1, int(qps_per_key * burst_multiplier))
BurstMultiplier == 30
\* Variant without the floor of one token.
BurstSizeForMut(num, den, burst_multiplier) == (num * burst_multiplier) \div den

\* The same for qps_per_key = num / den
BurstSizeFor(num, den, burst_multiplier) == Max(1, (num * burst_multiplier) \div den)
BurstSize == BurstSizeFor(TokensPerStep, TimeStep, BurstMultiplier)

\* Variant of a limiter whose rate is 0: nothing is added.
RefillMut(t) == t

Refill(t) == Min(BurstSize, t + TokensPerStep)

(***************************************************************************)
(* OpenRouterPoolClient                                                    *)
(***************************************************************************)
\* Largest number of concurrent callers of the pool, largest key list,
\* largest max_retries, and largest sum of max_attempts over the callers.
NumCalls == 2
MaxKeys == 3
MaxPoolRetries == 3
MaxTotalAttempts == 4

Calls == 1..NumCalls
Keys == 1..numKeys

\* Variant that hands the pool's own max_retries to the wrapped clients.
ClientMaxRetriesMut == maxRetries

\* max_retries=1 handed to every wrapped OpenRouterClient
ClientMaxRetries == 1

\* max_attempts = len(self.api_keys) * self.max_retries
PoolMaxAttempts == numKeys * maxRetries

\* cap of the sleep after a rate limit
PoolRetryAfterCap == 30

\* ns, rs: the key counts and max_retries to choose from; ms: the numbers
\* of callers to choose from (the other calls are never made)
PoolInitWith(ns, rs, ms) ==
    /\ numKeys \in ns
    /\ maxRetries \in rs
    /\ \E m \in ms :
        /\ m * numKeys * maxRetries <= MaxTotalAttempts
        /\ pc = [c \in Calls |-> IF c <= m THEN "idle" ELSE "unused"]
    /\ attempts = [c \in Calls |-> 0]
    /\ key = [c \in Calls |-> 0]
    /\ cattempt = [c \in Calls |-> 0]
    /\ lastError = [c \in Calls |-> NoResult]
    /\ result = [c \in Calls |-> NoResult]
    /\ requests = [c \in Calls |-> 0]
    /\ timer = [c \in Calls |-> 0]
    /\ outcome = [c \in Calls |-> NoResult]
    /\ responses = [c \in Calls |-> 0]
    /\ breaker = [k \in Keys |-> NewBreaker]
    /\ tokens = [k \in Keys |-> BurstSize]
    /\ grants = [k \in Keys |-> 0]
    /\ totalRequests = [k \in Keys |-> 0]
    /\ totalSuccesses = [k \in Keys |-> 0]
    /\ totalFailures = [k \in Keys |-> 0]
    /\ cursor = 0
    /\ locked = FALSE

\* A freshly constructed pool, no call made yet
PoolInit == PoolInitWith(1..MaxKeys, 0..MaxPoolRetries, 1..NumCalls)

\* No pool in use
PoolIdle == PoolInitWith({1}, {0}, {0})

\* The state _select_key reads and writes
KeyState ==
    [cursor |-> cursor, breaker |-> breaker, tokens |-> tokens, grants |-> grants,
     totalRequests |-> totalRequests, locked |-> locked]

\* KeyPool.get_next_key, round robin: the key under the cursor
NextKey(cur) == cur + 1
\* Variant whose cursor never moves.
AdvanceCursorMut(cur) == cur

AdvanceCursor(cur) == (cur + 1) % numKeys

\* The for loop of _select_key from its i-th iteration on; found is the key
\* returned, 0 if the loop ends without a return.
RECURSIVE ScanKeys(_, _)
ScanKeys(i, ks) ==
    IF i > numKeys THEN [ks |-> ks, found |-> 0]
    ELSE
        LET k == NextKey(ks.cursor)
            rd == BreakerRead(ks.breaker[k])
            ks1 == [ks EXCEPT !.cursor = AdvanceCursor(ks.cursor),
                              !.totalRequests[k] = @ + 1,
                              !.breaker[k] = rd.cb]
        IN IF rd.seen = "Open" THEN ScanKeys(i + 1, ks1)
           ELSE IF ks1.tokens[k] < 1 THEN ScanKeys(i + 1, ks1)
           ELSE [ks |-> [ks1 EXCEPT !.tokens[k] = @ - 1, !.grants[k] = @ + 1],
                 found |-> k]

\* Variant whose wait for a token happens outside `async with self._lock`.
FallbackMut(ks) ==
    LET k == NextKey(ks.cursor)
        ks1 == [ks EXCEPT !.cursor = AdvanceCursor(ks.cursor),
                          !.totalRequests[k] = @ + 1]
    IN IF ks1.tokens[k] >= 1
       THEN [ks |-> [ks1 EXCEPT !.tokens[k] = @ - 1, !.grants[k] = @ + 1,
                                !.locked = FALSE],
             key |-> k, pc |-> "http"]
       ELSE [ks |-> [ks1 EXCEPT !.locked = FALSE], key |-> k, pc |-> "acquire"]

\* The fallback of _select_key: the next key whatever its breaker says, then
\* rl.acquire(), which returns at once when a token is there and otherwise
\* suspends with the lock held.
Fallback(ks) ==
    LET k == NextKey(ks.cursor)
        ks1 == [ks EXCEPT !.cursor = AdvanceCursor(ks.cursor),
                          !.totalRequests[k] = @ + 1]
    IN IF ks1.tokens[k] >= 1
       THEN [ks |-> [ks1 EXCEPT !.tokens[k] = @ - 1, !.grants[k] = @ + 1,
                                !.locked = FALSE],
             key |-> k, pc |-> "http"]
       ELSE [ks |-> [ks1 EXCEPT !.locked = TRUE], key |-> k, pc |-> "acquire"]

\* _select_key from the moment the lock is taken up to the request going out
\* (pc "http", lock released) or the wait for a token (pc "acquire", lock held)
SelectKey(ks) ==
    LET sc == ScanKeys(1, ks)
    IN IF sc.found # 0
       THEN [ks |-> [sc.ks EXCEPT !.locked = FALSE], key |-> sc.found, pc |-> "http"]
       ELSE Fallback(sc.ks)

\* Variant that wraps the last error in an all-keys-exhausted error.
PoolExhaustedMut(last_error) ==
    IF last_error # NoResult
    THEN [last_error EXCEPT !.kind = "AllKeysExhausted"]
    ELSE Err("Client", None, None)

\* What is raised once the while loop is over
PoolExhausted(last_error) ==
    IF last_error # NoResult THEN last_error ELSE Err("Client", None, None)

\* Variant whose key selection does not wait for the lock.
LoopFromMut(att, last, oldKey, ks) ==
    IF ~(att < PoolMaxAttempts)
    THEN [pc |-> "done", attempts |-> att, key |-> oldKey,
          result |-> PoolExhausted(last), ks |-> ks]
    ELSE LET s == SelectKey(ks)
         IN [pc |-> s.pc, attempts |-> att + 1, key |-> s.key,
             result |-> NoResult, ks |-> s.ks]

\* _execute_with_pool from the while condition to its next suspension, for a
\* call with `attempts` = att, `last_error` = last and previous key oldKey
LoopFrom(att, last, oldKey, ks) ==
    IF ~(att < PoolMaxAttempts)
    THEN [pc |-> "done", attempts |-> att, key |-> oldKey,
          result |-> PoolExhausted(last), ks |-> ks]
    ELSE IF ks.locked
    THEN [pc |-> "lock", attempts |-> att + 1, key |-> oldKey,
          result |-> NoResult, ks |-> ks]
    ELSE LET s == SelectKey(ks)
         IN [pc |-> s.pc, attempts |-> att + 1, key |-> s.key,
             result |-> NoResult, ks |-> s.ks]

\* The variables of call c and of the keys after a run r of LoopFrom
ApplyLoop(c, r) ==
    /\ pc' = [pc EXCEPT ![c] = r.pc]
    /\ attempts' = [attempts EXCEPT ![c] = r.attempts]
    /\ key' = [key EXCEPT ![c] = r.key]
    /\ result' = [result EXCEPT ![c] = r.result]
    /\ requests' = [requests EXCEPT ![c] = IF r.pc = "http" THEN @ + 1 ELSE @]
    /\ cattempt' = [cattempt EXCEPT ![c] = 0]
    /\ cursor' = r.ks.cursor
    /\ breaker' = r.ks.breaker
    /\ tokens' = r.ks.tokens
    /\ grants' = r.ks.grants
    /\ totalRequests' = r.ks.totalRequests
    /\ locked' = r.ks.locked

\* A caller invokes generate_text / generate_from_image
StartCall(c) ==
    /\ pc[c] = "idle"
    /\ ApplyLoop(c, LoopFrom(0, NoResult, 0, KeyState))
    /\ UNCHANGED <<cfgVars, lastError, timer, histVars, totalSuccesses, totalFailures>>
    /\ UNCHANGED <<txVars, clVars, sysVars>>

\* `async with self._lock` is entered by a caller that had to wait for it
LockAcquire(c) ==
    /\ pc[c] = "lock"
    /\ ~locked
    /\ LET s == SelectKey(KeyState)
       IN ApplyLoop(c, [pc |-> s.pc, attempts |-> attempts[c], key |-> s.key,
                        result |-> NoResult, ks |-> s.ks])
    /\ UNCHANGED <<cfgVars, lastError, timer, histVars, totalSuccesses, totalFailures>>
    /\ UNCHANGED <<txVars, clVars, sysVars>>

\* rl.acquire() of the fallback gets its token; the lock is released and the
\* request goes out.
AcquireToken(c) ==
    /\ pc[c] = "acquire"
    /\ tokens[key[c]] >= 1
    /\ tokens' = [tokens EXCEPT ![key[c]] = @ - 1]
    /\ grants' = [grants EXCEPT ![key[c]] = @ + 1]
    /\ locked' = FALSE
    /\ pc' = [pc EXCEPT ![c] = "http"]
    /\ requests' = [requests EXCEPT ![c] = @ + 1]
    /\ UNCHANGED <<cfgVars, attempts, key, cattempt, lastError, result, timer,
                   histVars, breaker, totalRequests, totalSuccesses, totalFailures,
                   cursor>>
    /\ UNCHANGED <<txVars, clVars, sysVars>>

\* Variant that records a rate limit as one failure.
RateLimitFailuresMut(b) == RecordFailure(b)

\* cb.record_failure() three times in a row
RateLimitFailures(b) == RecordFailure(RecordFailure(RecordFailure(b)))

\* Variant that records a failure for a service overload as well.
PoolBreakerAfterMut(o, b) ==
    IF o.kind = "OK" THEN RecordSuccess(b)
    ELSE IF o.kind = "RateLimit" THEN RateLimitFailures(b)
    ELSE IF o.kind \in {"Server", "Timeout", "Service"} THEN RecordFailure(b)
    ELSE b

\* The breaker of the key after the try body or the except clause for o
PoolBreakerAfter(o, b) ==
    IF o.kind = "OK" THEN RecordSuccess(b)
    ELSE IF o.kind = "RateLimit" THEN RateLimitFailures(b)
    ELSE IF o.kind \in {"Server", "Timeout"} THEN RecordFailure(b)
    ELSE b

\* Variant with a catch-all clause that records a pool failure for every
\* error.
PoolCountsAnyErrorMut(o) == o.kind # "OK"

\* Variant that records a pool failure after a successful request as well.
PoolCountsFailureMut(o) ==
    o.kind \in {"OK", "RateLimit", "Service", "Server", "Timeout", "Auth", "Validation"}

\* The except clauses that call self._key_pool.record_failure
PoolCountsFailure(o) ==
    o.kind \in {"RateLimit", "Service", "Server", "Timeout", "Auth", "Validation"}

\* Variant that goes on to the next key after an authentication error.
PoolContinuesMut(o) == o.kind \in {"RateLimit", "Service", "Server", "Timeout", "Auth"}

\* The except clauses that fall through to the next loop iteration
PoolContinues(o) == o.kind \in {"RateLimit", "Service", "Server", "Timeout"}

\* Variant that sleeps for as long as the server asked.
PoolSleepMut(o) ==
    IF o.kind = "RateLimit" /\ Truthy(o.retryAfter)
    THEN o.retryAfter
    ELSE IF o.kind = "Service" THEN PoolServiceSleep
    ELSE 0

\* Seconds slept in the except clause, 0 when it does not sleep
PoolSleep(o) ==
    IF o.kind = "RateLimit" /\ Truthy(o.retryAfter)
    THEN Min(o.retryAfter, PoolRetryAfterCap)
    ELSE IF o.kind = "Service" THEN PoolServiceSleep
    ELSE 0

\* The HTTP exchange of call c ends with outcome o.  The wrapped client's retry
\* loop handles it first; what it returns or raises reaches the try/except
\* of _execute_with_pool, which returns, raises, sleeps, or goes round the
\* while loop at once.
Respond(c) ==
    /\ pc[c] = "http"
    /\ \E o \in StubOutcomes :
        LET h == ClientHandle(o, cattempt[c], ClientMaxRetries)
            k == key[c]
            brk == [breaker EXCEPT ![k] = PoolBreakerAfter(o, @)]
        IN /\ outcome' = [outcome EXCEPT ![c] = o]
           /\ responses' = [responses EXCEPT ![c] = @ + 1]
           /\ IF h.do = "sleep"
              THEN /\ pc' = [pc EXCEPT ![c] = "backoff"]
                   /\ timer' = [timer EXCEPT ![c] = h.delay]
                   /\ UNCHANGED <<attempts, key, cattempt, lastError, result, requests,
                                  keyVars>>
              ELSE /\ totalSuccesses' = [totalSuccesses EXCEPT
                                           ![k] = IF o.kind = "OK" THEN @ + 1 ELSE @]
                   /\ totalFailures' = [totalFailures EXCEPT
                                           ![k] = IF PoolCountsFailure(o) THEN @ + 1 ELSE @]
                   /\ IF ~PoolContinues(o)
                      THEN /\ result' = [result EXCEPT ![c] = o]
                           /\ pc' = [pc EXCEPT ![c] = "done"]
                           /\ breaker' = brk
                           /\ UNCHANGED <<attempts, key, cattempt, lastError, requests,
                                          timer, tokens, grants, totalRequests, cursor,
                                          locked>>
                      ELSE /\ lastError' = [lastError EXCEPT ![c] = o]
                           /\ IF PoolSleep(o) > 0
                              THEN /\ pc' = [pc EXCEPT ![c] = "sleep"]
                                   /\ timer' = [timer EXCEPT ![c] = PoolSleep(o)]
                                   /\ breaker' = brk
                                   /\ UNCHANGED <<attempts, key, cattempt, result,
                                                  requests, tokens, grants, totalRequests,
                                                  cursor, locked>>
                              ELSE /\ ApplyLoop(c, LoopFrom(attempts[c], o, k,
                                                   [KeyState EXCEPT !.breaker = brk]))
                                   /\ UNCHANGED timer
    /\ UNCHANGED cfgVars
    /\ UNCHANGED <<txVars, clVars, sysVars>>

\* asyncio.sleep is over: the pool goes back to the while condition, the
\* wrapped client issues its next request.
Wake(c) ==
    /\ pc[c] \in {"sleep", "backoff"}
    /\ timer[c] = 0
    /\ IF pc[c] = "backoff"
       THEN /\ cattempt' = [cattempt EXCEPT ![c] = @ + 1]
            /\ requests' = [requests EXCEPT ![c] = @ + 1]
            /\ pc' = [pc EXCEPT ![c] = "http"]
            /\ UNCHANGED <<attempts, key, result, keyVars>>
       ELSE /\ ApplyLoop(c, LoopFrom(attempts[c], lastError[c], key[c], KeyState))
            /\ UNCHANGED <<totalSuccesses, totalFailures>>
    /\ UNCHANGED <<cfgVars, lastError, timer, histVars>>
    /\ UNCHANGED <<txVars, clVars, sysVars>>

\* TimeStep seconds pass: sleeps shorten, open breakers age, buckets refill.
Tick ==
    /\ \/ \E c \in Calls : timer[c] > 0
       \/ \E k \in Keys : breaker[k].state = "Open" /\ breaker[k].age < RecoveryTimeout
       \/ \E k \in Keys : tokens[k] < BurstSize
    /\ timer' = [c \in Calls |-> Max(0, timer[c] - TimeStep)]
    /\ breaker' = [k \in Keys |->
                    IF breaker[k].state = "Open"
                    THEN [breaker[k] EXCEPT !.age = Min(RecoveryTimeout, @ + TimeStep)]
                    ELSE breaker[k]]
    /\ tokens' = [k \in Keys |-> Refill(tokens[k])]
    /\ grants' = [k \in Keys |-> 0]
    /\ UNCHANGED <<cfgVars, pc, attempts, key, cattempt, lastError, result,
                   requests, histVars, totalRequests, totalSuccesses, totalFailures,
                   cursor, locked>>
    /\ UNCHANGED <<txVars, clVars, sysVars>>

\* What the caller of a cancelled call gets: asyncio.CancelledError, which
\* no except clause of _execute_with_pool catches
Cancelled == Err("Cancelled", None, None)

\* The places where a call is suspended in an await
Suspended == {"lock", "acquire", "http", "backoff", "sleep"}

\* Variant whose selection lock stays held when its holder is cancelled.
LockAfterCancelMut(at, held) == held

\* `async with self._lock` releases the lock when CancelledError leaves its
\* body; the only await inside the body is the rate limiter's acquire()
LockAfterCancel(at, held) == IF at = "acquire" THEN FALSE ELSE held

\* The task running call c is cancelled while it is suspended: the
\* CancelledError is raised at the await and leaves _execute_with_pool.
Cancel(c) ==
    /\ pc[c] \in Suspended
    /\ pc' = [pc EXCEPT ![c] = "cancelled"]
    /\ result' = [result EXCEPT ![c] = Cancelled]
    /\ timer' = [timer EXCEPT ![c] = 0]
    /\ locked' = LockAfterCancel(pc[c], locked)
    /\ UNCHANGED <<cfgVars, attempts, key, cattempt, lastError, requests, histVars,
                   breaker, tokens, grants, totalRequests, totalSuccesses,
                   totalFailures, cursor>>
    /\ UNCHANGED <<txVars, clVars, sysVars>>

(***************************************************************************)
(* VPN bootstrap (app/core/vpn_bootstrap.py)                               *)
(*                                                                         *)
(* bootstrap_from_env is a synchronous function: one call is one step.     *)
(* What the host does is chosen with the step: the outcome of the           *)
(* tunnel-up command, the routes the tunnel tool installs, the DNS answers. *)
(* Host names, addresses and prefixes are sequences of characters, so that *)
(* the substring tests of the code are computed as the code computes them. *)
(***************************************************************************)
\* Largest number of bootstrap_from_env calls in a run
MaxBootstraps == 2

KwGenerativeLanguage == <<"g","e","n","e","r","a","t","i","v","e","l","a","n","g","u","a","g","e",".","g","o","o","g","l","e","a","p","i","s",".","c","o","m">>
KwGoogleApis == <<"g","o","o","g","l","e","a","p","i","s",".","c","o","m">>
DomGoogle == <<"g","e","n","e","r","a","t","i","v","e","l","a","n","g","u","a","g","e",".","g","o","o","g","l","e","a","p","i","s",".","c","o","m">>
DomOther == <<"e","x","a","m","p","l","e",".","o","r","g">>
IpA == <<"1",".","1",".","1",".","1">>
IpB == <<"1",".","0",".","0",".","1">>
Ip6 == <<":",":","1">>
CidrGoogle1 == <<"1","4","2",".","2","5","0",".","0",".","0","/","1","5">>
CidrGoogle2 == <<"1","7","2",".","2","1","7",".","0",".","0","/","1","6">>
CidrGoogle3 == <<"2","1","6",".","5","8",".","1","9","2",".","0","/","1","9">>
CidrTen == <<"1","0",".","0",".","0",".","0","/","8">>
CidrAll == <<"0",".","0",".","0",".","0","/","0">>
PrefixDefault == <<"d","e","f","a","u","l","t">>
Slash == <<"/">>
Colon == <<":">>
Suffix32 == <<"/", "3", "2">>

\* DefaultRoute(gateway, dev, metric); metric 0 stands for None
DefaultRoute(gateway, dev, metric) == [gateway |-> gateway, dev |-> dev, metric |-> metric]
\* _get_default_route() returning None
NoRoute == [gateway |-> "", dev |-> "", metric |-> 0]

\* One line of the routing table; via "" when the route has no gateway
Route(dst, via, dev, metric) == [dst |-> dst, via |-> via, dev |-> dev, metric |-> metric]

\* `ip` calls the prefix 0.0.0.0/0 "default"
IpPrefix(target) == IF target = CidrAll THEN PrefixDefault ELSE target

\* ip route replace: the route takes the place of the one with its prefix
\* and metric, if any
IpRouteReplace(rt, r) ==
    {s \in rt : ~(s.dst = r.dst /\ s.metric = r.metric)} \cup {r}

\* ip route add with the failure ignored (_run_ignore): nothing changes when
\* a route with the prefix and metric exists already
IpRouteAdd(rt, r) ==
    IF \E s \in rt : s.dst = r.dst /\ s.metric = r.metric THEN rt ELSE rt \cup {r}

DefaultRoutes(rt) == {r \in rt : r.dst = PrefixDefault}

\* The lowest-metric route of a set: the first line `ip route show` prints
FirstRoute(rs) == CHOOSE r \in rs : \A s \in rs : r.metric <= s.metric

\* Variant that accepts a default route without a gateway.
GetDefaultRouteMut(rt) ==
    IF DefaultRoutes(rt) = {} THEN NoRoute
    ELSE LET line == FirstRoute(DefaultRoutes(rt))
         IN DefaultRoute(line.via, line.dev, line.metric)

\* _get_default_route: first line of `ip route show default`, None unless it
\* has both a `via` and a `dev`
GetDefaultRoute(rt) ==
    IF DefaultRoutes(rt) = {} THEN NoRoute
    ELSE LET line == FirstRoute(DefaultRoutes(rt))
         IN IF line.via # "" /\ line.dev # ""
            THEN DefaultRoute(line.via, line.dev, line.metric)
            ELSE NoRoute

\* The commands of the route programmer
CmdRemoveDefault == [op |-> "del default dev", target |-> <<>>]
CmdRestoreDefault == [op |-> "replace default via", target |-> <<>>]
CmdViaInterface(target) == [op |-> "replace dev", target |-> target]
CmdViaGateway(target) == [op |-> "replace via", target |-> target]

\* The routing table after one command, for the tunnel interface and the
\* captured default route of the call
RunCmd(rt, cmd, interface, route) ==
    IF cmd.op = "del default dev"
    THEN LET mine == {r \in DefaultRoutes(rt) : r.dev = interface}
         IN IF mine = {} THEN rt ELSE rt \ {FirstRoute(mine)}
    ELSE IF cmd.op = "replace default via"
    THEN IpRouteReplace(rt, Route(PrefixDefault, route.gateway, route.dev, route.metric))
    ELSE IF cmd.op = "replace dev"
    THEN IpRouteReplace(rt, Route(IpPrefix(cmd.target), "", interface, 0))
    ELSE IpRouteReplace(rt, Route(IpPrefix(cmd.target), route.gateway, route.dev, 0))

RECURSIVE RunCmds(_, _, _, _)
RunCmds(rt, cmds, interface, route) ==
    IF cmds = <<>> THEN rt
    ELSE RunCmds(RunCmd(rt, Head(cmds), interface, route), Tail(cmds), interface, route)

\* ---- _resolve_domains ----
\* One socket.getaddrinfo call: the addresses it returns, or gaierror
DnsAnswer(ips) == [ok |-> TRUE, ips |-> ips]
DnsError == [ok |-> FALSE, ips |-> {}]
DnsOutcomes ==
    {DnsError} \cup {DnsAnswer(ips) : ips \in {{Ip6}, {IpB}, {IpA, Ip6}}}

\* range(3)
DnsAttempts == 3

\* What the resolver gives to the attempts made for one domain, in order
DnsScripts == [1..DnsAttempts -> DnsOutcomes]

\* A set as a list, in the arbitrary order of set iteration
RECURSIVE ListOf(_)
ListOf(set) ==
    IF set = {} THEN <<>>
    ELSE LET x == CHOOSE y \in set : TRUE IN <<x>> \o ListOf(set \ {x})

\* The `for attempt in range(3)` loop for one domain, from `attempt` on
\* (attempts are numbered from 1 here): the IPv4 addresses collected, or the
\* error raised when the last attempt fails
RECURSIVE ResolveLoop(_, _, _)
ResolveLoop(attempt, script, resolved_ips) ==
    IF attempt > DnsAttempts
    THEN [ok |-> TRUE, ips |-> resolved_ips, queries |-> DnsAttempts]
    ELSE IF script[attempt].ok
    THEN ResolveLoop(attempt + 1, script,
                     resolved_ips \cup {ip \in script[attempt].ips : ~Contains(Colon, ip)})
    ELSE IF attempt = DnsAttempts
    THEN [ok |-> FALSE, ips |-> {}, queries |-> attempt]
    ELSE ResolveLoop(attempt + 1, script, resolved_ips)

\* has_google_domain
HasGoogleDomain(domain_list) ==
    \E i \in 1..Len(domain_list) :
        \/ Contains(KwGenerativeLanguage, domain_list[i])
        \/ Contains(KwGoogleApis, domain_list[i])

GoogleCidrs == <<CidrGoogle1, CidrGoogle2, CidrGoogle3>>

\* The loop over domain_list from its i-th domain on; dns[i] is the script
\* of the i-th domain
RECURSIVE ResolveFrom(_, _, _, _)
ResolveFrom(i, domain_list, dns, addresses) ==
    IF i > Len(domain_list)
    THEN IF addresses = <<>>
         THEN [ok |-> FALSE, items |-> <<>>]
         ELSE [ok |-> TRUE, items |-> addresses]
    ELSE LET r == ResolveLoop(1, dns[i], {})
             seen == {addresses[j] : j \in 1..Len(addresses)}
         IN IF ~r.ok THEN [ok |-> FALSE, items |-> <<>>]
            ELSE ResolveFrom(i + 1, domain_list, dns,
                             addresses \o ListOf(r.ips \ seen))

\* _resolve_domains: ok FALSE when it raises
ResolveDomains(domain_list, dns) ==
    IF HasGoogleDomain(domain_list)
    THEN [ok |-> TRUE, items |-> GoogleCidrs]
    ELSE ResolveFrom(1, domain_list, dns, <<>>)

\* ---- configure_split_tunnel ----
RouteModes == {"all", "domains", "cidr"}

\* Variant: every resolved item is taken for a single address
TargetOfMut(item) == item \o Suffix32

\* targets.append(item) / targets.append(f"{item}/32")
TargetOf(item) == IF Contains(Slash, item) THEN item ELSE item \o Suffix32

MapSeq(Op(_), s) == [i \in 1..Len(s) |-> Op(s[i])]

\* Variant that puts the default route back before it reads the targets.
ConfigureSplitTunnelMut(env, default_route, dns) ==
    LET bypass == MapSeq(CmdViaGateway, env.bypass)
        failed == [ok |-> FALSE, cmds |-> <<>>]
        late == [ok |-> FALSE, cmds |-> <<CmdRemoveDefault, CmdRestoreDefault>>]
        split(targets) ==
            [ok |-> TRUE,
             cmds |-> <<CmdRemoveDefault, CmdRestoreDefault>>
                      \o MapSeq(CmdViaInterface, targets) \o bypass]
    IN IF env.mode \notin RouteModes THEN failed
       ELSE IF env.mode = "all"
       THEN IF env.bypass # <<>> /\ default_route = NoRoute THEN failed
            ELSE [ok |-> TRUE, cmds |-> bypass]
       ELSE IF default_route = NoRoute THEN failed
       ELSE IF env.mode = "domains"
       THEN IF env.domains = <<>> THEN late
            ELSE LET resolved == ResolveDomains(env.domains, dns)
                 IN IF ~resolved.ok THEN late
                    ELSE split(MapSeq(TargetOf, resolved.items))
       ELSE IF env.cidrs = <<>> THEN late
            ELSE split(env.cidrs)

\* The commands configure_split_tunnel runs, in order; ok FALSE when it
\* raises (it then has run none)
ConfigureSplitTunnel(env, default_route, dns) ==
    LET bypass == MapSeq(CmdViaGateway, env.bypass)
        failed == [ok |-> FALSE, cmds |-> <<>>]
        split(targets) ==
            [ok |-> TRUE,
             cmds |-> <<CmdRemoveDefault, CmdRestoreDefault>>
                      \o MapSeq(CmdViaInterface, targets) \o bypass]
    IN IF env.mode \notin RouteModes THEN failed
       ELSE IF env.mode = "all"
       THEN IF env.bypass # <<>> /\ default_route = NoRoute THEN failed
            ELSE [ok |-> TRUE, cmds |-> bypass]
       ELSE IF default_route = NoRoute THEN failed
       ELSE IF env.mode = "domains"
       THEN IF env.domains = <<>> THEN failed
            ELSE LET resolved == ResolveDomains(env.domains, dns)
                 IN IF ~resolved.ok THEN failed
                    ELSE split(MapSeq(TargetOf, resolved.items))
       ELSE IF env.cidrs = <<>> THEN failed
            ELSE split(env.cidrs)

\* ---- _run_with_sysctl_fallback ----
KwSysctl == <<"s","y","s","c","t","l">>
KwPermissionDenied == <<"p","e","r","m","i","s","s","i","o","n"," ","d","e","n","i","e","d">>
KwNotPermitted == <<"o","p","e","r","a","t","i","o","n"," ","n","o","t"," ","p","e","r","m","i","t","t","e","d">>
KwEacces == <<"e","a","c","c","e","s">>
KwSrcValidMark == <<"s","r","c","_","v","a","l","i","d","_","m","a","r","k">>
\* sysctl_param at its default
SysctlParam == <<"n","e","t",".","i","p","v","4",".","c","o","n","f",".","a","l","l",".","s","r","c","_","v","a","l","i","d","_","m","a","r","k">>
\* expected_value at its default
SysctlExpected == <<"1">>

\* What wg-quick can write to stderr when it exits non-zero: sysctl refused
\* the parameter; ip refused to create the link; sysctl refused another
\* parameter; sysctl set the parameter and the firewall command after it
\* was refused (wg-quick echoes each command it runs to stderr)
ErrSysctlDenied == <<"s","y","s","c","t","l",":"," ","p","e","r","m","i","s","s","i","o","n"," ","d","e","n","i","e","d"," ","o","n"," ","k","e","y"," ","'","n","e","t",".","i","p","v","4",".","c","o","n","f",".","a","l","l",".","s","r","c","_","v","a","l","i","d","_","m","a","r","k","'">>
ErrLinkNotPermitted == <<"R","T","N","E","T","L","I","N","K"," ","a","n","s","w","e","r","s",":"," ","O","p","e","r","a","t","i","o","n"," ","n","o","t"," ","p","e","r","m","i","t","t","e","d">>
ErrOtherParamDenied == <<"s","y","s","c","t","l",":"," ","p","e","r","m","i","s","s","i","o","n"," ","d","e","n","i","e","d"," ","o","n"," ","k","e","y"," ","'","n","e","t",".","i","p","v","4",".","i","p","_","f","o","r","w","a","r","d","'">>
ErrFirewallDenied == <<"[","#","]"," ","s","y","s","c","t","l"," ","-","q"," ","n","e","t",".","i","p","v","4",".","c","o","n","f",".","a","l","l",".","s","r","c","_","v","a","l","i","d","_","m","a","r","k","=","1","\n","[","#","]"," ","i","p","t","a","b","l","e","s","-","r","e","s","t","o","r","e"," ","-","n","\n","i","p","t","a","b","l","e","s","-","r","e","s","t","o","r","e",":"," ","P","e","r","m","i","s","s","i","o","n"," ","d","e","n","i","e","d"," ","(","y","o","u"," ","m","u","s","t"," ","b","e"," ","r","o","o","t",")">>
ErrorOutputs ==
    {ErrSysctlDenied, ErrLinkNotPermitted, ErrOtherParamDenied, ErrFirewallDenied}

\* What `sysctl -n <param>` can give: a value, or a failure to run
SysctlFailed == [returncode |-> 1, stdout |-> <<>>]
SysctlReads ==
    {[returncode |-> 0, stdout |-> <<"1", "\n">>],
     [returncode |-> 0, stdout |-> <<"0", "\n">>],
     SysctlFailed}
\* sysctl was not run
SysctlNotRead == [returncode |-> None, stdout |-> <<>>]

WhiteSpace == {" ", "\n", "\t"}

\* str.strip()
RECURSIVE Strip(_)
Strip(s) ==
    IF s = <<>> THEN s
    ELSE IF Head(s) \in WhiteSpace THEN Strip(Tail(s))
    ELSE IF s[Len(s)] \in WhiteSpace THEN Strip(SubSeq(s, 1, Len(s) - 1))
    ELSE s

\* str.replace(".", " ")
DotsToSpaces(s) == [i \in 1..Len(s) |-> IF s[i] = "." THEN " " ELSE s[i]]

\* _check_sysctl_param: the command ran and printed the expected value
CheckSysctlParam(read, expected_value) ==
    read.returncode = 0 /\ Strip(read.stdout) = expected_value

\* error_text of _run_with_sysctl_fallback
ErrorText(stderr, stdout) ==
    Lower(Lower(Strip(stderr)) \o <<" ">> \o Lower(Strip(stdout)))

\* is_sysctl_error: three substring tests on the whole error text
IsSysctlError(error_text, sysctl_param) ==
    LET has_sysctl_keyword == Contains(KwSysctl, error_text)
        has_permission_error ==
            \/ Contains(KwPermissionDenied, error_text)
            \/ Contains(KwNotPermitted, error_text)
            \/ Contains(KwEacces, error_text)
        param_mentioned ==
            \/ Contains(Lower(sysctl_param), error_text)
            \/ Contains(Lower(DotsToSpaces(sysctl_param)), error_text)
            \/ Contains(KwSrcValidMark, error_text)
    IN has_sysctl_keyword /\ has_permission_error /\ param_mentioned

\* One run of the tunnel-up command: its exit code, its stderr (stdout is
\* empty) and what the sysctl read of the fallback gave
CmdRun(returncode, stderr, sysctl) ==
    [returncode |-> returncode, stderr |-> stderr, sysctl |-> sysctl]
\* No tunnel-up command was run
NoCmd == CmdRun(None, <<>>, SysctlNotRead)

\* The fallback reads the sysctl only after a sysctl error
WgQuickRuns ==
    {CmdRun(0, <<>>, SysctlNotRead)}
    \cup {CmdRun(1, e, SysctlNotRead) : e \in
            {x \in ErrorOutputs : ~IsSysctlError(ErrorText(x, <<>>), SysctlParam)}}
    \cup {CmdRun(1, e, r) : e \in
            {x \in ErrorOutputs : IsSysctlError(ErrorText(x, <<>>), SysctlParam)},
          r \in SysctlReads}

\* _run_with_sysctl_fallback returns (TRUE) or raises (FALSE)
RunWithSysctlFallback(run) ==
    IF run.returncode = 0 THEN TRUE
    ELSE IF IsSysctlError(ErrorText(run.stderr, <<>>), SysctlParam)
    THEN CheckSysctlParam(run.sysctl, SysctlExpected)
    ELSE FALSE

WgQuickReturns == {r \in WgQuickRuns : RunWithSysctlFallback(r)}
WgQuickRaises == {r \in WgQuickRuns : ~RunWithSysctlFallback(r)}

\* ---- _validate_awg_config ----
ParamJc == <<"J","c">>
ParamJmin == <<"J","m","i","n">>
ParamJmax == <<"J","m","a","x">>
ParamS1 == <<"S","1">>
ParamS2 == <<"S","2">>
ParamH1 == <<"H","1">>
ParamH2 == <<"H","2">>
ParamH3 == <<"H","3">>
ParamH4 == <<"H","4">>
\* required_params
RequiredParams ==
    {ParamJc, ParamJmin, ParamJmax, ParamS1, ParamS2, ParamH1, ParamH2, ParamH3,
     ParamH4}

HdrInterface == <<"[","I","n","t","e","r","f","a","c","e","]">>
HdrInterfacePrefix == <<"[","I","n","t","e","r","f","a","c","e">>
HdrBracket == <<"[">>

StartsWith(prefix, s) ==
    Len(s) >= Len(prefix) /\ SubSeq(s, 1, Len(prefix)) = prefix

\* line.split("=")[0].strip() of a line that has an "="
KeyOf(line) ==
    LET eq == CHOOSE i \in 1..Len(line) :
                  line[i] = "=" /\ \A j \in 1..(i - 1) : line[j] # "="
    IN Strip(SubSeq(line, 1, eq - 1))

\* The loop over the lines of the file, from line i on
RECURSIVE FoundParams(_, _, _, _)
FoundParams(lines, i, in_interface, found_params) ==
    IF i > Len(lines) THEN found_params
    ELSE LET line == Strip(lines[i])
         IN IF StartsWith(HdrInterface, line)
            THEN FoundParams(lines, i + 1, TRUE, found_params)
            ELSE IF StartsWith(HdrBracket, line) /\ ~StartsWith(HdrInterfacePrefix, line)
            THEN FoundParams(lines, i + 1, FALSE, found_params)
            ELSE IF in_interface /\ Contains(<<"=">>, line)
            THEN FoundParams(lines, i + 1, in_interface,
                             IF KeyOf(line) \in RequiredParams
                             THEN found_params \cup {KeyOf(line)}
                             ELSE found_params)
            ELSE FoundParams(lines, i + 1, in_interface, found_params)

\* _validate_awg_config returns (TRUE) or raises (FALSE)
ValidateAwgConfig(lines) ==
    RequiredParams \ FoundParams(lines, 1, FALSE, {}) = {}

LineJc == <<"J","c"," ","="," ","4">>
LineJmin == <<"J","m","i","n"," ","="," ","4","0">>
LineJmax == <<"J","m","a","x"," ","="," ","7","0">>
LineS1 == <<"S","1"," ","="," ","0">>
LineS2 == <<"S","2"," ","="," ","0">>
LineH1 == <<"H","1"," ","="," ","1">>
LineH2 == <<"H","2"," ","="," ","2">>
LineH3 == <<"H","3"," ","="," ","3">>
LineH4 == <<"H","4"," ","="," ","4">>
LineLowerJc == <<"j","c"," ","="," ","4">>
LinePrivateKey == <<"P","r","i","v","a","t","e","K","e","y"," ","="," ","k">>
LinePublicKey == <<"P","u","b","l","i","c","K","e","y"," ","="," ","p">>
HdrPeer == <<"[","P","e","e","r","]">>
HdrInterface2 == <<"[","I","n","t","e","r","f","a","c","e","2","]">>

\* Config files: complete; H4 missing; all nine in [Peer] only; Jc in
\* [Peer] only; Jc spelt jc; Jc only in a section [Interface2] that follows
\* [Interface]
EightParams == <<LineJmin, LineJmax, LineS1, LineS2, LineH1, LineH2, LineH3, LineH4>>
CfgComplete ==
    <<HdrInterface, LinePrivateKey, LineJc>> \o EightParams \o <<HdrPeer, LinePublicKey>>
CfgNoH4 ==
    <<HdrInterface, LinePrivateKey, LineJc, LineJmin, LineJmax, LineS1, LineS2,
      LineH1, LineH2, LineH3, HdrPeer, LinePublicKey>>
CfgAllInPeer ==
    <<HdrInterface, LinePrivateKey, HdrPeer, LinePublicKey, LineJc>> \o EightParams
CfgJcInPeer ==
    <<HdrInterface, LinePrivateKey>> \o EightParams \o <<HdrPeer, LinePublicKey, LineJc>>
CfgLowerJc ==
    <<HdrInterface, LinePrivateKey, LineLowerJc>> \o EightParams \o <<HdrPeer, LinePublicKey>>
CfgJcInInterface2 ==
    <<HdrInterface, LinePrivateKey>> \o EightParams
    \o <<HdrInterface2, LineJc, HdrPeer, LinePublicKey>>
AwgConfigs ==
    {CfgComplete, CfgNoH4, CfgAllInPeer, CfgJcInPeer, CfgLowerJc, CfgJcInInterface2}
\* The file is not read
NoConfig == <<>>

\* ---- bootstrap_from_env ----
TunnelKinds == {"wireguard", "awg", "openvpn"}
VpnKinds == TunnelKinds \cup {"hysteria2"}

\* WG_INTERFACE / OPENVPN_INTERFACE at their defaults
TunnelInterface(kind) ==
    IF kind = "openvpn" THEN "tun0" ELSE IF kind = "wireguard" THEN "wg0" ELSE "awg0"

\* How ensure_wireguard_up / ensure_awg_up / ensure_openvpn_up can end: the
\* interface is up already, the tunnel-up command brings it up, the command
\* fails, or the interface does not come up within the timeout
EnsureUpOutcomes(up) ==
    IF up THEN {"already up"} ELSE {"started", "command failed", "timed out"}

\* ensure_awg_up validates the file before it looks at the interface;
\* ensure_openvpn_up looks at the interface again when its command fails
\* and returns if it is up then
EnsureOutcomes(kind, lines, up) ==
    IF kind = "awg" /\ ~ValidateAwgConfig(lines) THEN {"invalid config"}
    ELSE IF kind = "openvpn" /\ ~up
    THEN EnsureUpOutcomes(up) \cup {"up despite error"}
    ELSE EnsureUpOutcomes(up)

\* ---- _wait_for_interface ----
\* timeout and poll_interval, in clock ticks
WaitTimeout == 2
PollInterval == 1

\* The while loop from clock `now`: the interface is up from `upAt` on,
\* counted from the start of the wait (WaitTimeout: not before the deadline)
RECURSIVE PollFrom(_, _, _)
PollFrom(now, deadline, upAt) ==
    IF ~(now < deadline) THEN [ok |-> FALSE, seen |-> <<>>]
    ELSE IF now >= upAt THEN [ok |-> TRUE, seen |-> <<TRUE>>]
    ELSE LET rest == PollFrom(now + PollInterval, deadline, upAt)
         IN [ok |-> rest.ok, seen |-> <<FALSE>> \o rest.seen]

\* Variant that returns when the deadline passes.
WaitForInterfaceMut(upAt) ==
    [ok |-> TRUE, seen |-> PollFrom(0, WaitTimeout, upAt).seen]

\* ok: returns; otherwise raises WireGuardBootstrapError
WaitForInterface(upAt) == PollFrom(0, WaitTimeout, upAt)

\* What the checks of the interface that decide how ensure_*_up ends gave,
\* in order: the check before the command, the check after a failed
\* openvpn command, the polls of _wait_for_interface
InterfaceChecks(kind, how, wait) ==
    IF how = "invalid config" THEN <<>>
    ELSE IF how = "already up" THEN <<TRUE>>
    ELSE IF how = "up despite error" THEN <<FALSE, TRUE>>
    ELSE IF how = "command failed"
    THEN (IF kind = "openvpn" THEN <<FALSE, FALSE>> ELSE <<FALSE>>)
    ELSE <<FALSE>> \o wait.seen

\* Whether the tunnel tool, when its command succeeds, adds a default route
\* through the tunnel to the main table (AllowedIPs 0.0.0.0/0 set up by
\* `ip route add 0.0.0.0/0 dev <interface>`); openvpn runs with
\* --route-nopull
TunnelDefaults(kind, how) ==
    IF how \in {"started", "timed out"} /\ kind # "openvpn"
    THEN {TRUE, FALSE}
    ELSE {FALSE}

\* The runs of the tunnel-up command behind an outcome of ensure_*_up:
\* wg-quick (wireguard, awg) runs under _run_with_sysctl_fallback, openvpn
\* under _run_or_raise
TunnelCmdRuns(kind, how) ==
    IF how \in {"already up", "invalid config"} THEN {NoCmd}
    ELSE IF kind = "openvpn"
    THEN {CmdRun(IF how \in {"command failed", "up despite error"} THEN 1 ELSE 0,
                 <<>>, SysctlNotRead)}
    ELSE IF how = "command failed" THEN WgQuickRaises
    ELSE WgQuickReturns

\* No DNS query made
NoDns == <<>>

\* configure_split_tunnel gets as far as socket.getaddrinfo
DnsConsulted(env, default_route) ==
    /\ env.mode = "domains"
    /\ default_route # NoRoute
    /\ env.domains # <<>>
    /\ ~HasGoogleDomain(env.domains)

DnsChoices(env, default_route, reached) ==
    IF reached /\ DnsConsulted(env, default_route)
    THEN [1..Len(env.domains) -> DnsScripts]
    ELSE {NoDns}

\* bootstrap_from_env for VPN_TYPE wireguard, awg or openvpn
BootstrapTunnel ==
    /\ vpnCalls < MaxBootstraps
    /\ vpnEnv.enabled
    /\ vpnEnv.kind \in TunnelKinds
    /\ LET interface == TunnelInterface(vpnEnv.kind)
           default_route == GetDefaultRoute(routes)
       IN \E how \in EnsureOutcomes(vpnEnv.kind, wgConfig, ifUp) :
          \E run \in TunnelCmdRuns(vpnEnv.kind, how) :
          \E owns \in TunnelDefaults(vpnEnv.kind, how) :
          \E upAt \in (IF how \in {"started", "timed out"} THEN 0..WaitTimeout ELSE {0}) :
            LET waited == how \in {"started", "timed out"}
                wait == WaitForInterface(upAt)
                up_now == how \in {"already up", "up despite error"}
                          \/ (waited /\ upAt < WaitTimeout)
                reached == how \in {"already up", "up despite error"}
                           \/ (waited /\ wait.ok)
                started == how \notin {"already up", "invalid config"}
                rt1 == IF owns
                       THEN IpRouteAdd(routes, Route(PrefixDefault, "", interface, 0))
                       ELSE routes
            IN (how = "started") = (waited /\ wait.ok) /\
               \E dns \in DnsChoices(vpnEnv, default_route, reached) :
                LET prog == IF reached
                            THEN ConfigureSplitTunnel(vpnEnv, default_route, dns)
                            ELSE [ok |-> FALSE, cmds |-> <<>>]
                IN /\ routes' = RunCmds(rt1, prog.cmds, interface, default_route)
                   /\ ipLog' = prog.cmds
                   /\ ifUp' = IF how = "invalid config" THEN ifUp ELSE up_now
                   /\ ifSeen' = InterfaceChecks(vpnEnv.kind, how, wait)
                   /\ tunStarts' = IF started THEN tunStarts + 1 ELSE tunStarts
                   /\ tunCmd' = run
                   /\ captured' = default_route
                   /\ dnsUsed' = dns
                   /\ vpnResult' = IF prog.ok THEN "ok" ELSE "error"
                   /\ vpnTrace' = <<"get_default_route", "ensure_up">>
                                  \o (IF started THEN <<"tunnel_up">> ELSE <<>>)
                                  \o (IF how \in {"started", "timed out"}
                                      THEN <<"wait_for_interface">> ELSE <<>>)
                                  \o (IF reached THEN <<"configure_split_tunnel">> ELSE <<>>)
    /\ routesBefore' = routes
    /\ vpnCalls' = vpnCalls + 1
    /\ UNCHANGED <<vpnEnv, wgConfig, hyPort, hyProcs>>
    /\ UNCHANGED <<txVars, clVars, poolVars, healthVars>>

\* Variant that starts a client whether or not the port accepts.
HysteriaOutcomesMut(port) == {"exited", "ready", "timed out"}

\* How ensure_hysteria2_up can end: the SOCKS5 port accepts already, the
\* spawned client exits at once, the port opens in time, or it does not
HysteriaOutcomes(port) ==
    IF port THEN {"already listening"} ELSE {"exited", "ready", "timed out"}

\* Variant: every VPN type goes on to the default route and the route
\* programmer
UsesRouteProgrammerMut(kind) == kind \in VpnKinds

\* Whether bootstrap_from_env reads the default route and calls
\* configure_split_tunnel for the VPN type: the hysteria2 branch returns
\* before either
UsesRouteProgrammer(kind) == kind # "hysteria2"

\* bootstrap_from_env for VPN_TYPE hysteria2
BootstrapHysteria ==
    /\ vpnCalls < MaxBootstraps
    /\ vpnEnv.enabled
    /\ vpnEnv.kind = "hysteria2"
    /\ LET routed == UsesRouteProgrammer(vpnEnv.kind)
           default_route == IF routed THEN GetDefaultRoute(routes) ELSE NoRoute
       IN \E how \in HysteriaOutcomes(hyPort) :
            LET up == how \in {"already listening", "ready"}
            IN \E dns \in DnsChoices(vpnEnv, default_route, up /\ routed) :
                LET prog == IF up /\ routed
                            THEN ConfigureSplitTunnel(vpnEnv, default_route, dns)
                            ELSE [ok |-> up, cmds |-> <<>>]
                IN /\ hyPort' = up
                   /\ hyProcs' = IF how \in {"ready", "timed out"}
                                 THEN hyProcs + 1 ELSE hyProcs
                   /\ routes' = RunCmds(routes, prog.cmds,
                                        TunnelInterface(vpnEnv.kind), default_route)
                   /\ ipLog' = prog.cmds
                   /\ captured' = default_route
                   /\ dnsUsed' = dns
                   /\ vpnResult' = IF prog.ok THEN "ok" ELSE "error"
                   /\ vpnTrace' = (IF routed THEN <<"get_default_route">> ELSE <<>>)
                                  \o <<"ensure_hysteria2_up">>
                                  \o (IF how # "already listening"
                                      THEN <<"popen">> ELSE <<>>)
                                  \o (IF up /\ routed
                                      THEN <<"configure_split_tunnel">> ELSE <<>>)
    /\ routesBefore' = routes
    /\ vpnCalls' = vpnCalls + 1
    /\ tunCmd' = NoCmd
    /\ ifSeen' = <<>>
    /\ UNCHANGED <<vpnEnv, wgConfig, ifUp, tunStarts>>
    /\ UNCHANGED <<txVars, clVars, poolVars, healthVars>>

\* bootstrap_from_env with VPN_ENABLED off
BootstrapDisabled ==
    /\ vpnCalls < MaxBootstraps
    /\ ~vpnEnv.enabled
    /\ vpnResult' = "skipped"
    /\ vpnTrace' = <<>>
    /\ captured' = NoRoute
    /\ ipLog' = <<>>
    /\ dnsUsed' = NoDns
    /\ routesBefore' = routes
    /\ vpnCalls' = vpnCalls + 1
    /\ tunCmd' = NoCmd
    /\ ifSeen' = <<>>
    /\ UNCHANGED <<vpnEnv, wgConfig, routes, ifUp, tunStarts, hyPort, hyProcs>>
    /\ UNCHANGED <<txVars, clVars, poolVars, healthVars>>

\* The host's gateway and device
HostGateway == "192.168.1.1"
HostDev == "eth0"

\* The configurations and hosts the bootstrap is run on
DomainLists == {<<>>, <<DomGoogle>>, <<DomOther>>, <<DomOther, DomGoogle>>}
CidrLists == {<<>>, <<CidrGoogle1>>, <<CidrGoogle1, CidrTen>>, <<CidrAll>>}
BypassLists == {<<>>, <<CidrTen>>}
\* Settings the chosen mode does not read are left unset
VpnEnvs ==
    {e \in [enabled : BOOLEAN, kind : VpnKinds, mode : RouteModes \cup {"none"},
            domains : DomainLists, cidrs : CidrLists, bypass : BypassLists] :
        /\ e.mode # "domains" => e.domains = <<>>
        /\ e.mode # "cidr" => e.cidrs = <<>>
        /\ ~e.enabled => e.kind = "wireguard" /\ e.mode = "all" /\ e.bypass = <<>>}
HostTables ==
    { {},
      {Route(PrefixDefault, HostGateway, HostDev, 0)},
      {Route(PrefixDefault, HostGateway, HostDev, 100)},
      {Route(PrefixDefault, "", HostDev, 0)} }

VpnInitWith(envs, tables, ports) ==
    /\ vpnEnv \in envs
    /\ wgConfig \in (IF vpnEnv.enabled /\ vpnEnv.kind = "awg"
                    THEN AwgConfigs ELSE {NoConfig})
    /\ routes \in tables
    /\ hyPort \in (IF vpnEnv.kind = "hysteria2" THEN ports ELSE {FALSE})
    /\ ifUp = FALSE
    /\ tunStarts = 0
    /\ tunCmd = NoCmd
    /\ ifSeen = <<>>
    /\ hyProcs = 0
    /\ captured = NoRoute
    /\ ipLog = <<>>
    /\ dnsUsed = NoDns
    /\ vpnTrace = <<>>
    /\ vpnCalls = 0
    /\ vpnResult = "none"
    /\ routesBefore = routes

VpnInit == VpnInitWith(VpnEnvs, HostTables, BOOLEAN)

\* No bootstrap in the run
VpnIdle ==
    VpnInitWith({[enabled |-> FALSE, kind |-> "wireguard", mode |-> "all",
                  domains |-> <<>>, cidrs |-> <<>>, bypass |-> <<>>]},
                {{}}, {FALSE})

(***************************************************************************)
(* VPN health (app/services/vpn_health.py, app/routers/vpn.py)             *)
(*                                                                         *)
(* One GET /api/vpn/health is one step; what the host commands, the port   *)
(* checks and the probe request give is drawn with the initial state.      *)
(***************************************************************************)
\* ---- perform_gemini_probe ----
ProbeResponse(status_code) == [kind |-> "response", status_code |-> status_code]
\* httpx.RequestError
ProbeRequestError == [kind |-> "error", status_code |-> None]
ProbeStatuses == {200, 301, 404, 499, 500, 502, 503}
ProbeReplies == {ProbeRequestError} \cup {ProbeResponse(s) : s \in ProbeStatuses}

ProbeResult(status, http_status, error) ==
    [status |-> status, http_status |-> http_status, error |-> error]

\* first status code that is a failure
ProbeFailFrom == 500

\* Variant: only a transport failure fails the probe
PerformGeminiProbeMut(reply) ==
    IF reply.kind = "error" THEN ProbeResult("fail", None, "request error")
    ELSE ProbeResult("ok", reply.status_code, "")

PerformGeminiProbe(reply) ==
    IF reply.kind = "error" THEN ProbeResult("fail", None, "request error")
    ELSE IF reply.status_code < ProbeFailFrom
    THEN ProbeResult("ok", reply.status_code, "")
    ELSE ProbeResult("fail", reply.status_code, "HTTP status")

\* GeminiProbeResult(status=SKIPPED, error=...)
ProbeSkipped(error) == ProbeResult("skipped", None, error)

\* ---- collect_hysteria2_status ----
\* process: pgrep/ps find a hysteria process; socks5, http: the port accepts
CollectHysteria2Status(process, socks5, http) ==
    LET is_running == process
        socks5_accessible == is_running /\ socks5
        http_accessible == is_running /\ http
    IN [is_running |-> is_running,
        socks5_accessible |-> socks5_accessible,
        http_accessible |-> http_accessible,
        error |-> IF ~is_running THEN "Hysteria process not running"
                  ELSE IF ~socks5_accessible /\ ~http_accessible
                  THEN "Neither SOCKS5 port nor HTTP port are accessible"
                  ELSE IF ~socks5_accessible THEN "SOCKS5 port not accessible"
                  ELSE IF ~http_accessible THEN "HTTP port not accessible"
                  ELSE ""]

\* ---- collect_interface_status / collect_wireguard_overview ----
\* link: what `ip link show dev <if>` gives: "error" (no binary, timeout,
\* non-zero exit), "down" or "up"
CollectInterfaceStatus(link) ==
    [is_up |-> link = "up", error |-> IF link = "error" THEN "ip link show failed" ELSE ""]
\* tool_error: `wg show <if>` could not be run or failed
CollectWireguardOverview(tool_error) ==
    [error |-> IF tool_error THEN "wg show failed" ELSE ""]

NoHysteria == [is_running |-> FALSE, socks5_accessible |-> FALSE,
               http_accessible |-> FALSE, error |-> ""]
NoInterface == [is_up |-> FALSE, error |-> ""]
NoWireguard == [error |-> ""]

VpnHealthResponse(status, vpn_type, interface, wireguard, hysteria2, probe, details) ==
    [status |-> status, vpn_type |-> vpn_type, interface |-> interface,
     wireguard |-> wireguard, hysteria2 |-> hysteria2, probe |-> probe,
     details |-> details]

\* details.append(x) when the condition holds
AppendIf(cond, details, x) == IF cond THEN Append(details, x) ELSE details

\* The probe branch shared by both kinds of report
ProbeFor(in) ==
    IF ~in.allow_external_network
    THEN ProbeSkipped("External network access disabled.")
    ELSE PerformGeminiProbe(in.probe)

\* gather_vpn_health with the VPN disabled
DisabledReport(in) ==
    LET disabled == "VPN disabled in configuration."
        probe == ProbeSkipped("VPN disabled.")
    IN IF in.vpn_type = "hysteria2"
       THEN VpnHealthResponse("disabled", "hysteria2", NoInterface, NoWireguard,
                              [NoHysteria EXCEPT !.error = disabled], probe, <<disabled>>)
       ELSE VpnHealthResponse("disabled", "wireguard",
                              [NoInterface EXCEPT !.error = disabled],
                              [error |-> disabled], NoHysteria, probe, <<disabled>>)

\* gather_vpn_health for Hysteria2
Hysteria2Report(in) ==
    LET hysteria2 == CollectHysteria2Status(in.process, in.socks5, in.http)
        probe == ProbeFor(in)
        d1 == AppendIf(hysteria2.error # "", <<>>, hysteria2.error)
        s1 == IF hysteria2.error # "" /\
                 (~hysteria2.is_running
                  \/ (~hysteria2.socks5_accessible /\ ~hysteria2.http_accessible))
              THEN "degraded" ELSE "healthy"
        s2 == IF probe.status = "fail" THEN "degraded" ELSE s1
        d2 == AppendIf(probe.status \in {"fail", "skipped"}, d1, probe.error)
    IN VpnHealthResponse(s2, "hysteria2", NoInterface, NoWireguard, hysteria2, probe, d2)

\* Variant that reports an interface that is down without a detail.
WireGuardReportMut(in) ==
    LET interface_status == CollectInterfaceStatus(in.link)
        wireguard == CollectWireguardOverview(in.tool_error)
        probe == ProbeFor(in)
        d1 == IF interface_status.error # "" THEN <<interface_status.error>>
              ELSE <<>>
        s1 == IF interface_status.error # "" \/ ~interface_status.is_up
              THEN "degraded" ELSE "healthy"
        d2 == AppendIf(wireguard.error # "", d1, wireguard.error)
        s2 == IF wireguard.error # "" THEN "degraded" ELSE s1
        s3 == IF probe.status = "fail" THEN "degraded" ELSE s2
        d3 == AppendIf(probe.status \in {"fail", "skipped"}, d2, probe.error)
    IN VpnHealthResponse(s3, in.vpn_type, interface_status, wireguard, NoHysteria,
                         probe, d3)

\* gather_vpn_health for WireGuard / AWG
WireGuardReport(in) ==
    LET interface_status == CollectInterfaceStatus(in.link)
        wireguard == CollectWireguardOverview(in.tool_error)
        probe == ProbeFor(in)
        d1 == IF interface_status.error # "" THEN <<interface_status.error>>
              ELSE IF ~interface_status.is_up THEN <<"WireGuard interface is down.">>
              ELSE <<>>
        s1 == IF d1 # <<>> THEN "degraded" ELSE "healthy"
        d2 == AppendIf(wireguard.error # "", d1, wireguard.error)
        s2 == IF wireguard.error # "" THEN "degraded" ELSE s1
        s3 == IF probe.status = "fail" THEN "degraded" ELSE s2
        d3 == AppendIf(probe.status \in {"fail", "skipped"}, d2, probe.error)
    IN VpnHealthResponse(s3, in.vpn_type, interface_status, wireguard, NoHysteria,
                         probe, d3)

GatherVpnHealth(in) ==
    IF ~in.vpn_enabled THEN DisabledReport(in)
    ELSE IF in.vpn_type = "hysteria2" THEN Hysteria2Report(in)
    ELSE WireGuardReport(in)

\* The collectors (each runs host commands or connects to ports) and the
\* probe request that gather_vpn_health runs
CollectorsRun(in) ==
    IF ~in.vpn_enabled THEN {}
    ELSE (IF in.vpn_type = "hysteria2"
          THEN {"collect_hysteria2_status"}
          ELSE {"collect_interface_status", "collect_wireguard_overview",
                "collect_routes"})
         \cup (IF in.allow_external_network THEN {"perform_gemini_probe"} ELSE {})

\* ---- GET /api/vpn/health ----
HttpOk == 200
HttpServiceUnavailable == 503

\* report.model_dump_json()
ModelDumpJson(report) == <<"json", report>>

\* Variant: 503 only for a degraded report
VpnHealthEndpointMut(report) ==
    [status_code |-> IF report.status = "degraded" THEN HttpServiceUnavailable ELSE HttpOk,
     media_type |-> "application/json",
     content |-> ModelDumpJson(report)]

VpnHealthEndpoint(report) ==
    [status_code |-> IF report.status = "healthy" THEN HttpOk ELSE HttpServiceUnavailable,
     media_type |-> "application/json",
     content |-> ModelDumpJson(report)]

NoReport == VpnHealthResponse("none", "none", NoInterface, NoWireguard, NoHysteria,
                              ProbeSkipped(""), <<>>)
NoHttpResponse == [status_code |-> None, media_type |-> "", content |-> <<>>]

\* Settings and host conditions of a health request
HealthInputs ==
    [vpn_enabled : BOOLEAN, vpn_type : {"wireguard", "awg", "hysteria2"},
     allow_external_network : BOOLEAN,
     link : {"error", "down", "up"}, tool_error : BOOLEAN,
     process : BOOLEAN, socks5 : BOOLEAN, http : BOOLEAN,
     probe : ProbeReplies]

HealthInitWith(inputs) ==
    /\ hIn \in inputs
    /\ hReport = NoReport
    /\ hResponse = NoHttpResponse
    /\ hRan = {}

HealthInit == HealthInitWith(HealthInputs)

\* No health request in the run
HealthIdle ==
    HealthInitWith({[vpn_enabled |-> FALSE, vpn_type |-> "wireguard",
                     allow_external_network |-> FALSE, link |-> "down",
                     tool_error |-> FALSE, process |-> FALSE, socks5 |-> FALSE,
                     http |-> FALSE, probe |-> ProbeRequestError]})

\* vpn_health(): report = await gather_vpn_health(); return Response(...)
HealthRequest ==
    /\ hResponse = NoHttpResponse
    /\ hReport' = GatherVpnHealth(hIn)
    /\ hRan' = CollectorsRun(hIn)
    /\ hResponse' = VpnHealthEndpoint(hReport')
    /\ UNCHANGED hIn
    /\ UNCHANGED <<txVars, clVars, poolVars, vpnVars>>

(***************************************************************************)
(* Specifications                                                          *)
(***************************************************************************)
\* The pool client under concurrent calls
Init == TxIdle /\ ClIdle /\ PoolInit /\ VpnIdle /\ HealthIdle
Next ==
    \/ \E c \in Calls : StartCall(c)
    \/ \E c \in Calls : LockAcquire(c)
    \/ \E c \in Calls : AcquireToken(c)
    \/ \E c \in Calls : Respond(c)
    \/ \E c \in Calls : Wake(c)
    \/ Tick
Spec == Init /\ [][Next]_vars

\* The pool client under concurrent calls whose tasks may be cancelled
CancelNext ==
    \/ \E c \in Calls : StartCall(c)
    \/ \E c \in Calls : LockAcquire(c)
    \/ \E c \in Calls : AcquireToken(c)
    \/ \E c \in Calls : Respond(c)
    \/ \E c \in Calls : Wake(c)
    \/ \E c \in Calls : Cancel(c)
    \/ Tick
SpecCancel == Init /\ [][CancelNext]_vars

\* The event loop can run call c: its request is out, its sleep is over,
\* its token is there, or the lock it is queued on is free
Ready(c) ==
    \/ pc[c] = "http"
    \/ pc[c] \in {"sleep", "backoff"} /\ timer[c] = 0
    \/ pc[c] = "acquire" /\ tokens[key[c]] >= 1
    \/ pc[c] = "lock" /\ ~locked

\* Call c is run and gets to another suspension point or to its end (the
\* step of Respond, Wake, AcquireToken or LockAcquire that moves pc[c])
Resumed(c) ==
    /\ Ready(c)
    /\ \E p \in {"lock", "acquire", "http", "backoff", "sleep", "done"} \ {pc[c]} :
          pc' = [pc EXCEPT ![c] = p]

\* The pool client under concurrent calls and a fair event loop: the clock
\* advances, and while some call is ready a ready call is run
PoolFairness ==
    /\ WF_vars(Tick)
    /\ WF_pc(\E c \in Calls : Resumed(c))
SpecFair == Init /\ [][Next]_vars /\ PoolFairness

\* One standalone provider client call
ClientInit == TxIdle /\ ClInit /\ PoolIdle /\ VpnIdle /\ HealthIdle
ClientNext == ClRequest \/ ClWake
SpecClient == ClientInit /\ [][ClientNext]_vars

\* One transport request
TransportInit == TxInit /\ ClIdle /\ PoolIdle /\ VpnIdle /\ HealthIdle
TransportNext == TxRequest
SpecTransport == TransportInit /\ [][TransportNext]_vars

\* Calls of bootstrap_from_env on one host
VpnSpecInit == TxIdle /\ ClIdle /\ PoolIdle /\ VpnInit /\ HealthIdle
VpnNext == BootstrapTunnel \/ BootstrapHysteria \/ BootstrapDisabled
SpecVpn == VpnSpecInit /\ [][VpnNext]_vars

\* One GET /api/vpn/health
HealthSpecInit == TxIdle /\ ClIdle /\ PoolIdle /\ VpnIdle /\ HealthInit
HealthNext == HealthRequest
SpecHealth == HealthSpecInit /\ [][HealthNext]_vars

(***************************************************************************)
(* Properties of the pool client (under Spec)                              *)
(***************************************************************************)
\* The step in which the HTTP exchange of call c ends
Responded(c) == responses'[c] = responses[c] + 1
\* A step in which a request of call c goes out
Dispatched(c) == requests'[c] = requests[c] + 1
\* Call 1 is the only call made on the pool
SingleCaller == \A c \in Calls : c # 1 => pc[c] = "unused"

\* C1: no request is dispatched to a key at a moment when its breaker is
\* Open with the recovery timeout not yet elapsed, be the key chosen by the
\* selection loop or by the fallback.
C1_NoDispatchToOpenKey ==
    [][\A c \in Calls : Dispatched(c) => ~IsOpenNow(breaker'[key'[c]])]_vars

\* C2: an AuthError or ValidationError outcome records one pool failure for
\* the key of the request, dispatches nothing more and ends the call with
\* that error; the call stays ended.  With two keys and a single call whose
\* first request (to A) is answered 401, B is never selected.
C2_AuthValidationFatal ==
    [][\A c \in Calls :
        /\ (Responded(c) /\ outcome'[c].kind \in {"Auth", "Validation"}) =>
              /\ totalFailures' = [totalFailures EXCEPT ![key[c]] = @ + 1]
              /\ totalRequests' = totalRequests
              /\ requests' = requests
              /\ pc'[c] = "done"
              /\ result'[c] = outcome'[c]
        /\ (outcome[c].kind \in {"Auth", "Validation"}) =>
              /\ pc'[c] = "done" /\ result'[c] = outcome[c]
              /\ requests'[c] = requests[c]
        /\ (SingleCaller' /\ numKeys' = 2 /\ responses'[1] = 1
                /\ outcome'[1].kind = "Auth") =>
              /\ key'[1] = 1 /\ requests'[1] = 1
              /\ totalRequests'[2] = 0 /\ totalFailures'[1] = 1
    ]_vars

C2_Witness ==
    /\ SingleCaller /\ numKeys = 2
    /\ pc[1] = "done" /\ result[1].kind = "Auth"
    /\ totalFailures[1] = 1 /\ totalRequests[2] = 0

\* Every permitted attempt of call c was made and failed with a retryable
\* error (an attempt that fails otherwise ends the call).
Exhausted(c) ==
    /\ pc[c] = "done"
    /\ numKeys * maxRetries > 0
    /\ responses[c] = numKeys * maxRetries
    /\ outcome[c].kind \in RetryableKinds

C4_RequestsBounded ==
    \A c \in Calls :
        /\ attempts[c] <= numKeys * maxRetries
        /\ requests[c] <= attempts[c]
        /\ pc[c] \in {"http", "sleep", "done"} /\ responses[c] > 0
              => requests[c] = attempts[c]

C4_Witness ==
    \E c \in Calls :
        /\ pc[c] = "done" /\ numKeys = 2 /\ maxRetries = 2
        /\ requests[c] = 4

\* C5: a ServiceOverload outcome leaves every breaker as it is, counts one
\* pool failure for the key and puts the call to sleep for 30 s.  With one
\* key and a single call answered 429 (no quota wording) and then 200, the
\* breaker is Closed with no failure all along and the call succeeds.
C5_OverloadKeepsBreaker ==
    [][\A c \in Calls :
        /\ (Responded(c) /\ outcome'[c].kind = "Service") =>
              /\ breaker' = breaker
              /\ totalFailures' = [totalFailures EXCEPT ![key[c]] = @ + 1]
              /\ pc'[c] = "sleep" /\ timer'[c] = 30
              /\ requests' = requests
        /\ (pc[c] = "sleep" /\ pc'[c] # "sleep") => timer[c] = 0
        /\ (SingleCaller' /\ numKeys' = 1 /\ lastError'[1].kind = "Service"
                /\ responses'[1] = 1) =>
              /\ breaker'[1].state = "Closed" /\ breaker'[1].failures = 0
              /\ totalFailures'[1] = 1
        /\ (SingleCaller' /\ numKeys' = 1 /\ lastError'[1].kind = "Service"
                /\ responses'[1] = 2 /\ outcome'[1].kind = "OK") =>
              /\ pc'[1] = "done" /\ result'[1].kind = "OK"
              /\ breaker'[1].state = "Closed" /\ breaker'[1].failures = 0
              /\ totalFailures'[1] = 1 /\ totalSuccesses'[1] = 1
    ]_vars

C5_Witness ==
    /\ SingleCaller /\ numKeys = 1
    /\ lastError[1] = Err("Service", 429, None)
    /\ responses[1] = 2 /\ pc[1] = "done" /\ result[1].kind = "OK"
    /\ breaker[1].state = "Closed" /\ totalFailures[1] = 1

\* Scenario "three keys, one quota-exhausted" at its end: a single call on
\* [A, B, C] whose first request, to A, got the quota 429 and whose second
\* request got 200.
QuotaScenarioDone ==
    /\ SingleCaller /\ numKeys = 3
    /\ responses[1] = 2
    /\ lastError[1].kind = "RateLimit"
    /\ outcome[1].kind = "OK"

\* C6 as stated: after the scenario breaker(A) is Open.
C6_BreakerOfAOpen ==
    QuotaScenarioDone =>
        /\ pc[1] = "done" /\ result[1].kind = "OK" /\ key[1] = 2
        /\ breaker[1].state = "Open"
        /\ totalFailures[1] >= 1 /\ totalSuccesses[2] = 1

\* C6 amended: after the scenario the call has returned B's response,
\* breaker(A) has three consecutive failures and is still Closed (the
\* threshold is five), totalFailures(A) = 1 and totalSuccesses(B) = 1.
C6_BreakerOfAClosedWithThree ==
    QuotaScenarioDone =>
        /\ pc[1] = "done" /\ result[1].kind = "OK" /\ key[1] = 2
        /\ breaker[1].state = "Closed" /\ breaker[1].failures = 3
        /\ totalFailures[1] = 1 /\ totalSuccesses[2] = 1
        /\ totalRequests[3] = 0

C6_Witness ==
    /\ QuotaScenarioDone
    /\ pc[1] = "done" /\ result[1].kind = "OK"
    /\ breaker[1].failures = 3 /\ totalSuccesses[2] = 1

\* Call c is inside `async with self._lock` of _select_key (the scan itself
\* runs without suspending; only the fallback's wait for a token suspends
\* with the lock held).
InSelection(c) == pc[c] = "acquire"
\* The HTTP request of call c is in flight
InFlight(c) == pc[c] = "http"

\* C11: at most one call is inside the key-selection critical section, the
\* lock is held exactly while some call is inside it, and a call whose HTTP
\* request is in flight is not inside it.
C11_OneSelectionAtATime ==
    /\ Cardinality({c \in Calls : InSelection(c)}) <= 1
    /\ locked <=> \E c \in Calls : InSelection(c)
    /\ \A c \in Calls : InFlight(c) => ~InSelection(c)

\* Two calls in flight on the HTTP transport at once
C11_Witness ==
    /\ InFlight(1) /\ InFlight(2)
    /\ ~locked

\* C12: for every key, successes plus failures recorded never exceed the
\* selections of the key.
C12_CountersBounded ==
    \A k \in Keys : totalSuccesses[k] + totalFailures[k] <= totalRequests[k]

C12_Witness ==
    /\ numKeys = 2 /\ \A c \in Calls : pc[c] = "done"
    /\ totalSuccesses[1] = 1 /\ totalFailures[2] = 1
    /\ totalRequests[1] = 1 /\ totalRequests[2] = 1

(***************************************************************************)
(* Properties of the provider client's retry loop (under SpecClient)       *)
(***************************************************************************)
ThreeTimeouts == <<"Timeout", "Timeout", "Timeout">>

C8_RetryLoopBounded ==
    LET bound == IF clMax >= 1 THEN clMax ELSE 1
        last == clLog[Len(clLog)]
    IN /\ clRequests <= bound
       /\ clRequests = Len(clLog)
       /\ clLog # <<>> =>
            /\ last \in RetryableKinds /\ clRequests < bound =>
                  clPc \in {"sleep", "request"} /\ Len(clSleeps) = clRequests
            /\ last \in RetryableKinds /\ clRequests = bound =>
                  clPc = "done" /\ clResult.kind = last
                      /\ Len(clSleeps) = clRequests - 1
            /\ last \in {"Auth", "Validation", "Client"} =>
                  clPc = "done" /\ clResult.kind = last
                      /\ Len(clSleeps) = clRequests - 1
            /\ (clLog = <<last>> /\ last \in {"Auth", "Validation", "Client"}) =>
                  clRequests = 1 /\ clSleeps = <<>>

C8_Witness ==
    /\ clMax = 3 /\ clPc = "done"
    /\ clLog = <<"Service", "RateLimit", "Server">>
    /\ clResult.kind = "Server"

(***************************************************************************)
(* Properties of the HTTP transport (under SpecTransport)                  *)
(***************************************************************************)
\* Some window of the text equals the keyword when letter case is ignored
MatchesIgnoringCase(kw, text) ==
    \E i \in 1..Len(text) :
        /\ i + Len(kw) - 1 <= Len(text)
        /\ \A j \in 1..Len(kw) : LowerChar(text[i + j - 1]) = kw[j]

HasQuotaWording(text) ==
    \E kw \in {KwQuota, KwApiKey, KwRateLimit, KwPerKey} : MatchesIgnoringCase(kw, text)

\* C9: every failed HTTP outcome maps to the typed error of the table.
C9_ErrorMapping ==
    txResult # NoResult =>
        LET st == txResp.status
        IN /\ txResp.kind = "timeout" => txResult.kind = "Timeout"
           /\ txResp.kind = "neterr" => txResult.kind = "Client"
           /\ txResp.kind = "response" =>
                /\ st \in {401, 403} => txResult.kind = "Auth"
                /\ (st = 429 /\ HasQuotaWording(txResp.body)) =>
                        txResult.kind = "RateLimit"
                /\ (st = 429 /\ ~HasQuotaWording(txResp.body)) =>
                        txResult.kind = "Service" /\ txResult.status = 429
                /\ st = 503 => txResult.kind = "Service" /\ txResult.status = 503
                /\ (st >= 500 /\ st # 503) =>
                        txResult.kind = "Server" /\ txResult.status = st
                /\ (st >= 400 /\ st < 500 /\ st \notin {401, 403, 429}) =>
                        txResult.kind = "Validation"

C9_Witness ==
    /\ txResp.kind = "response" /\ txResp.status = 429
    /\ txResp.body = <<"x", " ", "A", "P", "I", " ", "k", "e", "y", "!">>
    /\ txResult.kind = "RateLimit"

\* C10: a 2xx response whose body is not JSON is reported as ValidationError.
C10_NonJsonIsValidationError ==
    (/\ txResult # NoResult
     /\ txResp.kind = "response"
     /\ txResp.status >= 200 /\ txResp.status < 300
     /\ ~IsJson(txResp.body)) =>
        txResult.kind = "Validation"

(***************************************************************************)
(* Properties of the VPN bootstrap (under SpecVpn)                         *)
(***************************************************************************)
\* The latest bootstrap_from_env call brought a tunnel backend up (or found
\* it up) and returned without error
TunnelBootstrapped ==
    vpnResult = "ok" /\ vpnEnv.enabled /\ vpnEnv.kind \in TunnelKinds
SplitTunnel == vpnEnv.mode \in {"domains", "cidr"}

\* C13: in split-tunnel mode, after a successful bootstrap the default
\* route has the gateway and the device of the default route captured
\* before the tunnel was started, whatever the route targets and the
\* bypass CIDRs are.
C13_DefaultRouteRestored ==
    (TunnelBootstrapped /\ SplitTunnel) =>
        /\ captured # NoRoute
        /\ GetDefaultRoute(routes).gateway = captured.gateway
        /\ GetDefaultRoute(routes).dev = captured.dev

\* C14: a second bootstrap_from_env call made while the tunnel of a
\* successful first call is up, in the same environment (same settings,
\* same DNS answers), returns without error in every route mode, does not
\* start the tunnel backend again and leaves the routing table as the
\* first call left it.
C14_BootstrapIdempotent ==
    [][(/\ TunnelBootstrapped
        /\ ifUp
        /\ vpnCalls' = vpnCalls + 1
        /\ dnsUsed' = dnsUsed)
       => (/\ vpnResult' = "ok"
           /\ tunStarts' = tunStarts
           /\ routes' = routes)]_vars

\* The scenario of C15: route mode domains, route domain
\* generativelanguage.googleapis.com, bypass 10.0.0.0/8, WireGuard on wg0,
\* and `default via 192.168.1.1 dev eth0` before the call
GoogleScenario ==
    /\ vpnEnv.enabled
    /\ vpnEnv.kind = "wireguard"
    /\ vpnEnv.mode = "domains"
    /\ vpnEnv.domains = <<DomGoogle>>
    /\ vpnEnv.bypass = <<CidrTen>>
    /\ routesBefore = {Route(PrefixDefault, HostGateway, HostDev, 0)}
    /\ vpnResult \in {"ok", "error"}

\* C15: in that scenario a bootstrap that brings the tunnel up succeeds and
\* leaves routes through wg0 for 142.250.0.0/15, 172.217.0.0/16 and
\* 216.58.192.0/19, the route 10.0.0.0/8 via 192.168.1.1 dev eth0 and the
\* default route via 192.168.1.1 dev eth0, without any DNS query.
C15_GoogleCidrsRouted ==
    (GoogleScenario /\ ifUp) =>
        /\ vpnResult = "ok"
        /\ dnsUsed = NoDns
        /\ routes = {Route(CidrGoogle1, "", "wg0", 0),
                     Route(CidrGoogle2, "", "wg0", 0),
                     Route(CidrGoogle3, "", "wg0", 0),
                     Route(CidrTen, HostGateway, HostDev, 0),
                     Route(PrefixDefault, HostGateway, HostDev, 0)}
        /\ GetDefaultRoute(routes) = DefaultRoute(HostGateway, HostDev, 0)

C15_Witness ==
    /\ GoogleScenario
    /\ vpnCalls = 1
    /\ vpnResult = "ok"
    /\ Route(CidrGoogle1, "", "wg0", 0) \in routes
    /\ Route(CidrTen, HostGateway, HostDev, 0) \in routes

\* The latest call queried DNS for its route domains
DnsQueried == vpnEnv.kind \in TunnelKinds /\ dnsUsed # NoDns
\* The attempts for the i-th domain that returned addresses, and the IPv4
\* addresses they returned between them
SuccessfulAttempts(i) == {a \in 1..DnsAttempts : dnsUsed[i][a].ok}
UnionOfAnswers(i) ==
    {ip \in UNION {dnsUsed[i][a].ips : a \in SuccessfulAttempts(i)} :
        ~Contains(Colon, ip)}
RoutedTargets ==
    {ipLog[j].target : j \in {k \in 1..Len(ipLog) : ipLog[k].op = "replace dev"}}

\* C16: each configured domain is resolved with at most 3 attempts, the
\* addresses routed are the union of what the successful attempts returned,
\* and the call fails on resolution only when all attempts of some domain
\* failed (or no attempt returned an IPv4 address), whatever the pattern
\* of per-attempt success and failure.
C16_FatalOnlyWhenAllAttemptsFail ==
    DnsQueried =>
        /\ \A i \in 1..Len(dnsUsed) : Len(dnsUsed[i]) <= 3
        /\ vpnResult = "ok" =>
              RoutedTargets =
                  {ip \o Suffix32 :
                      ip \in UNION {UnionOfAnswers(i) : i \in 1..Len(dnsUsed)}}
        /\ vpnResult = "error" =>
              \/ \E i \in 1..Len(dnsUsed) : SuccessfulAttempts(i) = {}
              \/ \A i \in 1..Len(dnsUsed) : UnionOfAnswers(i) = {}

\* A bootstrap_from_env call with VPN_TYPE hysteria2 has returned or raised
HysteriaBootstrapped ==
    vpnEnv.enabled /\ vpnEnv.kind = "hysteria2" /\ vpnCalls > 0

\* C17: bootstrapping Hysteria2 never runs the route programmer: whether
\* the call succeeds or fails, for every route mode and target list in the
\* settings, the routing table is what it was before the call, no ip route
\* command is issued and no default route is read.
C17_HysteriaLeavesRoutes ==
    HysteriaBootstrapped =>
        /\ routes = routesBefore
        /\ ipLog = <<>>
        /\ dnsUsed = NoDns
        /\ captured = NoRoute
        /\ \A i \in 1..Len(vpnTrace) :
              vpnTrace[i] \notin {"get_default_route", "configure_split_tunnel"}

\* A successful Hysteria2 bootstrap on a host with a default route, with
\* split-tunnel settings that would program routes for a tunnel
C17_Witness ==
    /\ HysteriaBootstrapped
    /\ vpnResult = "ok"
    /\ vpnEnv.mode = "cidr"
    /\ vpnEnv.cidrs = <<CidrGoogle1, CidrTen>>
    /\ routes = {Route(PrefixDefault, HostGateway, HostDev, 0)}

\* ... and a failed one
C17_WitnessFailed ==
    /\ HysteriaBootstrapped
    /\ vpnResult = "error"
    /\ routes = {Route(PrefixDefault, HostGateway, HostDev, 0)}

(***************************************************************************)
(* Properties of the VPN health report (under SpecHealth)                  *)
(***************************************************************************)
\* GET /api/vpn/health has been answered
HealthAnswered == hResponse # NoHttpResponse

\* The conditions of the report that make a VPN degraded
InterfaceDown == hReport.vpn_type # "hysteria2" /\ ~hReport.interface.is_up
TunnelToolError ==
    hReport.vpn_type # "hysteria2"
    /\ (hReport.interface.error # "" \/ hReport.wireguard.error # "")
HysteriaNotRunning == hReport.vpn_type = "hysteria2" /\ ~hReport.hysteria2.is_running
ProxyPortClosed ==
    hReport.vpn_type = "hysteria2"
    /\ (~hReport.hysteria2.socks5_accessible \/ ~hReport.hysteria2.http_accessible)
ProbeFailed == hReport.probe.status = "fail"
DegradingCondition ==
    InterfaceDown \/ TunnelToolError \/ HysteriaNotRunning \/ ProxyPortClosed
    \/ ProbeFailed

\* C18: the report's status is disabled when the VPN is off; otherwise it
\* is degraded exactly when the interface is down, a tunnel tool failed,
\* the hysteria process is not running, the SOCKS5 or the HTTP proxy port
\* is closed, or the probe failed, and healthy otherwise.
C18_StatusFromConditions ==
    HealthAnswered =>
        IF ~hIn.vpn_enabled THEN hReport.status = "disabled"
        ELSE IF DegradingCondition THEN hReport.status = "degraded"
        ELSE hReport.status = "healthy"

\* C19: the endpoint answers 200 exactly when the report is healthy, 503
\* when it is degraded or disabled, and the body is the JSON dump of the
\* report in all three cases.
C19_StatusCodeFromReport ==
    HealthAnswered =>
        /\ hReport.status \in {"healthy", "degraded", "disabled"}
        /\ hResponse.status_code = 200 <=> hReport.status = "healthy"
        /\ hReport.status \in {"degraded", "disabled"} => hResponse.status_code = 503
        /\ hResponse.media_type = "application/json"
        /\ hResponse.content = ModelDumpJson(hReport)
        /\ hReport = GatherVpnHealth(hIn)

\* A disabled report answered with 503
C19_Witness ==
    /\ HealthAnswered
    /\ hReport.status = "disabled"
    /\ hResponse.status_code = 503
    /\ hResponse.content = ModelDumpJson(hReport)

\* The probe request was made
Probed == HealthAnswered /\ hIn.vpn_enabled /\ hIn.allow_external_network

\* C20: the probe maps a response with status below 500 to ok and records
\* the status, and a status of 500 or more or a transport failure to fail;
\* with the interface up, no tool error and a probe response of 404 the
\* report is healthy with probe ok and http_status 404.
C20_ProbeMapping ==
    Probed =>
        /\ (hIn.probe.kind = "response" /\ hIn.probe.status_code < 500) =>
              /\ hReport.probe.status = "ok"
              /\ hReport.probe.http_status = hIn.probe.status_code
        /\ (hIn.probe.kind = "response" /\ hIn.probe.status_code >= 500) =>
              hReport.probe.status = "fail"
        /\ hIn.probe.kind = "error" => hReport.probe.status = "fail"
        /\ (/\ hIn.vpn_type # "hysteria2"
            /\ hIn.link = "up"
            /\ ~hIn.tool_error
            /\ hIn.probe = ProbeResponse(404)) =>
              /\ hReport.status = "healthy"
              /\ hReport.probe.status = "ok"
              /\ hReport.probe.http_status = 404

C20_Witness ==
    /\ Probed
    /\ hIn.vpn_type = "wireguard"
    /\ hIn.link = "up"
    /\ ~hIn.tool_error
    /\ hIn.probe = ProbeResponse(404)
    /\ hReport.status = "healthy"
    /\ hReport.probe.http_status = 404

(***************************************************************************)
(* Properties of the breakers, buckets and cursor of the pool (under Spec) *)
(***************************************************************************)
\* In this step a request to key k reports back with an outcome of kind
\* in kinds
Reports(k, kinds) ==
    \E c \in Calls :
        /\ pc[c] = "http" /\ key[c] = k
        /\ responses'[c] = responses[c] + 1
        /\ outcome'[c].kind \in kinds

\* C21: under the record_success, record_failure and state reads the pool
\* issues, an Open breaker has its opening time set, a breaker that becomes
\* Closed has no failures counted, Closed turns Open only with the failure
\* count at the threshold, Open turns HalfOpen only after the recovery
\* timeout, and HalfOpen turns Closed on a success and Open with a fresh
\* opening time on a failure.
C21_BreakerTransitions ==
    [][\A k \in Keys :
        LET b == breaker[k]
            b2 == breaker'[k]
        IN /\ b2.state = "Open" => b2.age # None /\ b2.age >= 0
           /\ (b.state # "Closed" /\ b2.state = "Closed") => b2.failures = 0
           /\ (b.state = "Closed" /\ b2.state = "Open") =>
                 b2.failures >= FailureThreshold
           /\ (b.state = "Open" /\ b2.state = "HalfOpen") =>
                 b.age >= RecoveryTimeout
           /\ (b.state = "HalfOpen" /\ b2.state = "Closed") => Reports(k, {"OK"})
           /\ (b.state = "HalfOpen" /\ b2.state = "Open") =>
                 b2.age = 0 /\ Reports(k, {"RateLimit", "Server", "Timeout"})
           /\ ~(b.state = "Closed" /\ b2.state = "HalfOpen")
           /\ ~(b.state = "Open" /\ b2.state = "Closed")]_vars

\* A breaker that opened at the threshold, turned HalfOpen after the
\* recovery timeout and has its probe request in flight
C21_Witness ==
    \E k \in Keys :
        /\ breaker[k].state = "HalfOpen"
        /\ breaker[k].failures >= FailureThreshold
        /\ \E c \in Calls : pc[c] = "http" /\ key[c] = k

\* The calls with a request to key k out
InFlightOn(k) == {c \in Calls : pc[c] \in {"http", "backoff"} /\ key[c] = k}
\* Call c is dispatched to key k in this step
DispatchedTo(c, k) ==
    /\ pc'[c] = "http" /\ key'[c] = k
    /\ requests'[c] = requests[c] + 1

StubKinds == {o.kind : o \in StubOutcomes}

\* C22: while the breaker of a key is HalfOpen at most one request to the
\* key is in flight, and no caller is dispatched to a key whose HalfOpen
\* probe has not reported yet.
C22_SingleHalfOpenProbe ==
    [][\A k \in Keys :
        /\ breaker'[k].state = "HalfOpen" => Cardinality(InFlightOn(k)') <= 1
        /\ (breaker[k].state = "HalfOpen" /\ ~Reports(k, StubKinds)) =>
              \A c \in Calls : ~DispatchedTo(c, k)]_vars

\* Rates (as fractions) and burst multipliers a pool can be built with
QpsNumerators == {1, 2}
QpsDenominators == {1, 3, 30}
Multipliers == {1, 2, 30}

\* C23: the tokens of every bucket stay within 0..burst_size, no more than
\* burst_size acquisitions (try_acquire or the blocking acquire) succeed on
\* a key between two advances of the clock, that is within a window
\* shorter than 1/qps, and burst_size = max(1, int(qps * burst_multiplier))
\* is at least 1.
C23_TokensWithinBurst ==
    /\ \A k \in Keys :
          /\ tokens[k] \in 0..BurstSize
          /\ grants[k] \in 0..BurstSize
    /\ BurstSize >= 1
    /\ \A num \in QpsNumerators, den \in QpsDenominators, m \in Multipliers :
          /\ BurstSizeFor(num, den, m) >= 1
          /\ BurstSizeFor(num, den, m) * den <= Max(den, num * m)
          /\ (BurstSizeFor(num, den, m) + 1) * den > num * m

\* An emptied bucket with one caller's request out and another caller
\* blocked in acquire() on the same key
C23_Witness ==
    \E k \in Keys :
        /\ tokens[k] = 0 /\ grants[k] = BurstSize
        /\ \E c \in Calls : pc[c] = "http" /\ key[c] = k
        /\ \E c \in Calls : pc[c] = "acquire" /\ key[c] = k

RECURSIVE SumTo(_, _)
SumTo(f, n) == IF n = 0 THEN 0 ELSE f[n] + SumTo(f, n - 1)

\* Nothing has failed and every key asked for had a token: every
\* get_next_key so far led to a request, and every request is the first of
\* its call
NoFailuresNoWaits ==
    /\ \A k \in Keys : totalFailures[k] = 0 /\ breaker[k] = NewBreaker
    /\ \A c \in Calls : requests[c] <= 1 /\ pc[c] \notin {"lock", "acquire"}
    /\ SumTo(totalRequests, numKeys) = SumTo(requests, NumCalls)

\* Call c enters _select_key in this step and finds the key under the
\* cursor Closed and with a token
SelectsAtCursor(c) ==
    /\ pc[c] \in {"idle", "lock", "sleep"}
    /\ pc'[c] = "http"
    /\ breaker[cursor + 1].state = "Closed"
    /\ tokens[cursor + 1] >= 1

\* C24: with round robin over a fixed list of N keys, as long as nothing
\* fails and every key has a token, the n-th pool call is dispatched to key
\* number (n - 1) mod N: a selection that finds the key under the cursor
\* usable takes it and moves the cursor on by one modulo N, and after n
\* calls the keys have been used as k0, k1, ..., k(N-1), k0, ... uses them.
C24_RoundRobinOrder ==
    /\ [](NoFailuresNoWaits =>
            LET n == SumTo(requests, NumCalls)
            IN /\ cursor = n % numKeys
               /\ \A k \in Keys :
                     totalRequests[k] =
                         Cardinality({j \in 0..(n - 1) : j % numKeys = k - 1})
               /\ \A c \in Calls : requests[c] = 1 => totalRequests[key[c]] >= 1)
    /\ [][\A c \in Calls :
            SelectsAtCursor(c) =>
                /\ key'[c] = cursor + 1
                /\ cursor' = (cursor + 1) % numKeys]_vars

\* Two calls answered without failure by a pool of two keys: one went to
\* the first key and one to the second
C24_Witness ==
    /\ numKeys = 2
    /\ NoFailuresNoWaits
    /\ \A c \in Calls : pc[c] = "done" /\ result[c].kind = "OK"
    /\ {key[c] : c \in Calls} = {1, 2}

(***************************************************************************)
(* Properties of cancellation (under SpecCancel)                           *)
(***************************************************************************)
\* Call c is cancelled in this step while it sleeps between attempts or
\* waits in the acquire() of the selection fallback
CancelledSuspended(c) ==
    pc[c] \in {"sleep", "backoff", "acquire"} /\ pc'[c] = "cancelled"

\* C25: a call cancelled while it sleeps between attempts or waits in the
\* blocking acquire of the selection fallback issues no further request and
\* ends with the cancellation outcome for good, and the selection lock is
\* free afterwards: it is only ever held by a live call inside the selection.
C25_CancelStopsCall ==
    /\ [](\A c \in Calls : pc[c] = "cancelled" => result[c] = Cancelled)
    /\ [](locked => \E c \in Calls : pc[c] = "acquire")
    /\ [][\A c \in Calls :
            /\ CancelledSuspended(c) =>
                  /\ requests'[c] = requests[c]
                  /\ result'[c] = Cancelled
                  /\ totalRequests' = totalRequests
                  /\ pc[c] = "acquire" => ~locked'
            /\ pc[c] = "cancelled" =>
                  /\ pc'[c] = "cancelled"
                  /\ requests'[c] = requests[c]
                  /\ attempts'[c] = attempts[c]
                  /\ result'[c] = result[c]]_vars

\* One call was cancelled in the acquire of its first selection, another in
\* the sleep after its first request, and the lock is free.
C25_Witness ==
    \E c, d \in Calls :
        /\ pc[c] = "cancelled" /\ key[c] # 0 /\ requests[c] = 0
        /\ pc[d] = "cancelled" /\ attempts[d] = 1 /\ responses[d] = 1
        /\ lastError[d].kind = "Service"
        /\ ~locked

(***************************************************************************)
(* Properties of the tunnel bootstrap and the route programmer (under      *)
(* SpecVpn)                                                                *)
(***************************************************************************)
\* The latest call was a bootstrap of an interface-based tunnel
TunnelBootstrapRan ==
    vpnCalls > 0 /\ vpnEnv.enabled /\ vpnEnv.kind \in TunnelKinds

\* When the latest call began, the first default route of the host lacked
\* a gateway or a device, or there was no default route
NoOriginalDefault ==
    \A r \in DefaultRoutes(routesBefore) :
        (\A s \in DefaultRoutes(routesBefore) : r.metric <= s.metric) =>
            (r.via = "" \/ r.dev = "")

\* Position of a stage in the trace of the latest call, 0 when absent
StageAt(stage) ==
    IF \E i \in 1..Len(vpnTrace) : vpnTrace[i] = stage
    THEN CHOOSE i \in 1..Len(vpnTrace) : vpnTrace[i] = stage
    ELSE 0

\* C26: in the split-tunnel modes the default route is read from the table
\* as it was before the tunnel backend is started; when that table has no
\* default route with a gateway and a device the bootstrap ends with an
\* error; and the route programmer issues no command without a captured
\* default route.
C26_DefaultRouteCaptured ==
    (TunnelBootstrapRan /\ SplitTunnel) =>
        /\ StageAt("get_default_route") = 1
        /\ StageAt("tunnel_up") # 1
        /\ (captured = NoRoute) <=> NoOriginalDefault
        /\ NoOriginalDefault => (vpnResult = "error" /\ ipLog = <<>>)
        /\ ipLog # <<>> => captured # NoRoute

\* A split-tunnel bootstrap on a host whose default route has no gateway:
\* the tunnel was started and came up, the route programmer was called and
\* raised
C26_Witness ==
    /\ TunnelBootstrapRan /\ SplitTunnel
    /\ \E r \in routesBefore : r.dst = PrefixDefault /\ r.via = ""
    /\ captured = NoRoute
    /\ StageAt("tunnel_up") > 1
    /\ StageAt("configure_split_tunnel") > StageAt("tunnel_up")
    /\ vpnResult = "error"
    /\ ipLog = <<>>

\* The lines of a text
LinesOf(s) ==
    {SubSeq(s, i, j) : <<i, j>> \in
        {p \in (1..Len(s)) \X (1..Len(s)) :
            /\ p[1] <= p[2]
            /\ p[1] = 1 \/ s[p[1] - 1] = "\n"
            /\ p[2] = Len(s) \/ s[p[2] + 1] = "\n"
            /\ \A n \in p[1]..p[2] : s[n] # "\n"}}

SysctlSays == <<"s","y","s","c","t","l",":">>

\* The outputs in which sysctl itself reports that it was refused
\* net.ipv4.conf.all.src_valid_mark: a line written by sysctl that has the
\* refusal and the parameter
SysctlDeniedOutputs ==
    {e \in ErrorOutputs :
        \E line \in LinesOf(Lower(e)) :
            /\ StartsWith(SysctlSays, line)
            /\ \/ Contains(KwPermissionDenied, line)
               \/ Contains(KwNotPermitted, line)
            /\ Contains(Lower(SysctlParam), line)}

\* The latest call was a WireGuard bootstrap whose wg-quick up exited
\* non-zero
WgQuickFailed ==
    /\ vpnCalls > 0 /\ vpnEnv.enabled /\ vpnEnv.kind = "wireguard"
    /\ tunCmd.returncode = 1

\* C27: after a wg-quick up that exits non-zero, the WireGuard bootstrap
\* goes on (to wait for the interface) exactly when the output reports
\* that sysctl was refused net.ipv4.conf.all.src_valid_mark and the sysctl
\* reads 1; in every other case it ends in error without the route
\* programmer having been called.
C27_SysctlFallback ==
    WgQuickFailed =>
        LET tolerated ==
                /\ tunCmd.stderr \in SysctlDeniedOutputs
                /\ tunCmd.sysctl.returncode = 0
                /\ Strip(tunCmd.sysctl.stdout) = SysctlExpected
        IN /\ (StageAt("wait_for_interface") > 0) <=> tolerated
           /\ ~tolerated =>
                 /\ vpnResult = "error"
                 /\ StageAt("configure_split_tunnel") = 0
                 /\ ipLog = <<>>

\* Line i of the file is a section header
IsHeader(lines, i) == StartsWith(HdrBracket, Strip(lines[i]))

\* Line i of the file stands in the section [Interface]: the nearest header
\* above it is [Interface]
InInterfaceSection(lines, i) ==
    \E h \in 1..(i - 1) :
        /\ Strip(lines[h]) = HdrInterface
        /\ \A n \in (h + 1)..(i - 1) : ~IsHeader(lines, n)

\* The obfuscation parameters set in the section [Interface] of the file
InterfaceParams(lines) ==
    {KeyOf(Strip(lines[i])) :
        i \in {n \in 1..Len(lines) :
                 /\ ~IsHeader(lines, n)
                 /\ Contains(<<"=">>, lines[n])
                 /\ InInterfaceSection(lines, n)}}
    \cap RequiredParams

\* C28: an AmneziaWG bootstrap whose config lacks one of Jc, Jmin, Jmax, S1,
\* S2, H1, H2, H3, H4 in its section [Interface] ends in error, has run no
\* tunnel-up command and leaves the routing table as it was; a parameter
\* set in another section does not make up for it.
C28_AwgConfigValidated ==
    (/\ vpnCalls > 0 /\ vpnEnv.enabled /\ vpnEnv.kind = "awg"
     /\ RequiredParams \ InterfaceParams(wgConfig) # {}) =>
        /\ vpnResult = "error"
        /\ tunCmd = NoCmd
        /\ tunStarts = 0
        /\ StageAt("tunnel_up") = 0
        /\ routes = routesBefore

\* Positions in the command log of the latest call
TargetCmds == {i \in 1..Len(ipLog) : ipLog[i].op = "replace dev"}
DefaultCmds == {i \in 1..Len(ipLog) : ipLog[i] \in {CmdRemoveDefault, CmdRestoreDefault}}
BypassCmds == {i \in 1..Len(ipLog) : ipLog[i].op = "replace via"}

\* C29: in the modes domains and cidr the route programmer first installs
\* every target route through the tunnel interface, then deletes the
\* tunnel's default route and restores the original one, and last installs
\* the bypass CIDRs through the original gateway.
C29_TargetsBeforeDefault ==
    (TunnelBootstrapRan /\ SplitTunnel /\ ipLog # <<>>) =>
        /\ \A t \in TargetCmds : \A d \in DefaultCmds : t < d
        /\ \A i, j \in DefaultCmds :
              (ipLog[i] = CmdRemoveDefault /\ ipLog[j] = CmdRestoreDefault) => i < j
        /\ \A d \in DefaultCmds : \A b \in BypassCmds : d < b

\* Target t is routed through the tunnel interface after the latest call
RoutedViaTunnel(t) ==
    /\ t \in RoutedTargets
    /\ \E r \in routes : r.dst = t /\ r.dev = TunnelInterface(vpnEnv.kind)

\* C30: after a successful bootstrap in the mode domains every configured
\* domain has its routes through the tunnel interface: a googleapis.com
\* domain the three fixed CIDR blocks, every other domain of the list a /32
\* route for an IPv4 address it resolved to.
C30_EveryDomainRouted ==
    (TunnelBootstrapped /\ vpnEnv.mode = "domains") =>
        \A i \in 1..Len(vpnEnv.domains) :
            IF Contains(KwGoogleApis, vpnEnv.domains[i])
            THEN \A n \in 1..Len(GoogleCidrs) : RoutedViaTunnel(GoogleCidrs[n])
            ELSE /\ dnsUsed # NoDns
                 /\ \E ip \in UnionOfAnswers(i) : RoutedViaTunnel(TargetOf(ip))

(***************************************************************************)
(* Properties of the Hysteria2 bootstrap (under SpecVpn)                   *)
(***************************************************************************)
\* The number of times a stage stands in the trace of the latest call
StageCount(trace, stage) ==
    Cardinality({i \in 1..Len(trace) : trace[i] = stage})

\* C31: a Hysteria2 bootstrap starts at most one client process; it starts
\* none, and returns without error, when the SOCKS5 port accepts already,
\* so that calls made while the port accepts leave the processes as they
\* were; and it returns without error only when the port accepts.
C31_HysteriaSpawnsOnce ==
    [][(vpnCalls' = vpnCalls + 1 /\ vpnEnv.enabled /\ vpnEnv.kind = "hysteria2") =>
        /\ StageCount(vpnTrace', "popen") <= 1
        /\ hyProcs' - hyProcs \in {0, 1}
        /\ hyProcs' > hyProcs => StageCount(vpnTrace', "popen") = 1
        /\ hyPort => (/\ StageCount(vpnTrace', "popen") = 0
                      /\ hyProcs' = hyProcs
                      /\ hyPort'
                      /\ vpnResult' = "ok")
        /\ vpnResult' = "ok" => hyPort']_vars

\* A second call found the port of the client started by the first call
\* accepting and started nothing
C31_Witness ==
    /\ HysteriaBootstrapped
    /\ vpnCalls = 2
    /\ hyProcs = 1
    /\ hyPort
    /\ vpnResult = "ok"
    /\ StageCount(vpnTrace, "popen") = 0

(***************************************************************************)
(* Properties of the pool's error handling (under Spec)                    *)
(***************************************************************************)
\* The call goes round the while loop in this step: it selects a key (or
\* waits for the lock) for its next attempt, or finds its attempts used up
NextIteration(c) ==
    \/ attempts'[c] = attempts[c] + 1 /\ pc'[c] \in {"http", "lock", "acquire"}
    \/ attempts'[c] = attempts[c] /\ pc'[c] = "done"
          /\ ~(attempts[c] < PoolMaxAttempts)

\* C32: a RateLimited outcome records three breaker failures and one pool
\* failure for the key; with a retryAfter the call then sleeps
\* min(retryAfter, 30) seconds, never more than 30, and goes on to the next
\* selection when the sleep is over; without one it goes on at once.  A
\* ServerError or Timeout records one breaker failure and one pool failure
\* and the call goes on without sleeping.
C32_FailureAccounting ==
    [][\A c \in Calls :
        LET o == outcome'[c]
            k == key[c]
        IN /\ (Responded(c) /\ o.kind = "RateLimit") =>
                 /\ breaker'[k].failures = breaker[k].failures + 3
                 /\ totalFailures' = [totalFailures EXCEPT ![k] = @ + 1]
                 /\ totalSuccesses' = totalSuccesses
                 /\ IF Truthy(o.retryAfter)
                    THEN /\ pc'[c] = "sleep"
                         /\ timer'[c] = Min(o.retryAfter, 30)
                         /\ timer'[c] <= 30
                         /\ requests' = requests
                    ELSE NextIteration(c)
           /\ (Responded(c) /\ o.kind \in {"Server", "Timeout"}) =>
                 /\ breaker'[k].failures = breaker[k].failures + 1
                 /\ totalFailures' = [totalFailures EXCEPT ![k] = @ + 1]
                 /\ totalSuccesses' = totalSuccesses
                 /\ timer' = timer
                 /\ NextIteration(c)
           /\ (pc[c] = "sleep" /\ pc'[c] # "sleep") =>
                 /\ timer[c] = 0
                 /\ NextIteration(c)
    ]_vars

\* A call sleeping after a 429 that asked for 40 s, and one that went on at
\* once after a 500
C32_Witness ==
    \E c, d \in Calls :
        /\ outcome[c] = Err("RateLimit", 429, 40)
        /\ pc[c] = "sleep" /\ timer[c] = 30
        /\ breaker[key[c]].failures >= 3
        /\ outcome[d].kind = "Server" /\ responses[d] = 1 /\ attempts[d] = 2

(***************************************************************************)
(* Properties of the client's retry delays (under SpecClient)              *)
(***************************************************************************)
\* C33: the sleep between two attempts of the client's retry loop is the
\* retryAfter of a RateLimited error that carries one from the server,
\* 2^attempt seconds (attempt counted from 0) for a RateLimited error
\* without one and for ServerError and Timeout, and 30 s for
\* ServiceOverload whatever the attempt number.
C33_SleepBetweenAttempts ==
    clPc = "sleep" =>
        LET delay == clSleeps[Len(clSleeps)]
        IN /\ (clLast.kind = "RateLimit" /\ clLast.retryAfter # None) =>
                 delay = clLast.retryAfter
           /\ (clLast.kind = "RateLimit" /\ clLast.retryAfter = None) =>
                 delay = 2 ^ clAttempt
           /\ clLast.kind \in {"Server", "Timeout"} => delay = 2 ^ clAttempt
           /\ clLast.kind = "Service" => delay = 30

(***************************************************************************)
(* Properties of the wait for the interface (under SpecVpn)                *)
(***************************************************************************)
\* The route programmer was called in the latest bootstrap
RouteProgrammerCalled == StageCount(vpnTrace, "configure_split_tunnel") > 0

\* The latest bootstrap waited for the interface and gave up
WaitTimedOut ==
    /\ StageCount(vpnTrace, "wait_for_interface") = 1
    /\ \A i \in 1..Len(ifSeen) : ~ifSeen[i]

\* C34: when a WireGuard, AmneziaWG or OpenVPN bootstrap returns
\* successfully, or programs any route, its last look at the tunnel
\* interface found it UP and came before the route programmer; when the
\* interface is not seen UP within the timeout the bootstrap fails with no
\* call of the route programmer and no routing command; and the wait makes
\* a bounded number of polls.
C34_InterfaceUpBeforeRoutes ==
    TunnelBootstrapRan =>
        /\ (vpnResult = "ok" \/ RouteProgrammerCalled \/ ipLog # <<>>) =>
              /\ ifSeen # <<>> /\ ifSeen[Len(ifSeen)]
              /\ ifUp
              /\ vpnTrace[Len(vpnTrace)] = "configure_split_tunnel"
              /\ StageCount(vpnTrace, "configure_split_tunnel") = 1
        /\ WaitTimedOut =>
              /\ vpnResult = "error"
              /\ ~RouteProgrammerCalled
              /\ ipLog = <<>>
        /\ Len(ifSeen) <= 1 + WaitTimeout
        /\ \A i \in 1..(Len(ifSeen) - 1) : ~ifSeen[i]

\* A second bootstrap that saw the interface come up at its second poll and
\* programmed routes
C34_Witness ==
    /\ TunnelBootstrapRan
    /\ vpnCalls = 2
    /\ vpnResult = "ok"
    /\ ifSeen = <<FALSE, FALSE, TRUE>>
    /\ ipLog # <<>>

(***************************************************************************)
(* Properties of the route programmer's errors (under SpecVpn)             *)
(***************************************************************************)
\* configure_split_tunnel was called in the latest bootstrap and raised
RouteProgrammerRaised ==
    TunnelBootstrapRan /\ RouteProgrammerCalled /\ vpnResult = "error"

\* The configuration error behind a raise of the route programmer
ConfigErrors ==
    {cause \in {"route mode", "no domains", "no cidrs", "no default route", "dns"} :
        \/ cause = "route mode" /\ vpnEnv.mode \notin RouteModes
        \/ cause = "no domains" /\ vpnEnv.mode = "domains" /\ vpnEnv.domains = <<>>
        \/ cause = "no cidrs" /\ vpnEnv.mode = "cidr" /\ vpnEnv.cidrs = <<>>
        \/ cause = "no default route" /\ captured = NoRoute
              /\ (vpnEnv.mode = "all" => vpnEnv.bypass # <<>>)
        \/ cause = "dns" /\ dnsUsed # NoDns
              /\ ~ResolveDomains(vpnEnv.domains, dnsUsed).ok}

\* C35: a raise of the route programmer has one of the five configuration
\* errors behind it (route mode outside all/domains/cidr, empty domain
\* list, empty CIDR list, no original default route, DNS resolution
\* failure) and comes before its first routing command: the routing table
\* is the one it was before the call, but for a default route through the
\* tunnel that the tunnel tool may have added.
C35_ErrorsBeforeMutation ==
    RouteProgrammerRaised =>
        /\ ConfigErrors # {}
        /\ ipLog = <<>>
        /\ routes \in
              {routesBefore,
               IpRouteAdd(routesBefore,
                          Route(PrefixDefault, "", TunnelInterface(vpnEnv.kind), 0))}

\* The route programmer raised on a DNS failure after wg-quick had added
\* its default route
C35_Witness ==
    /\ RouteProgrammerRaised
    /\ ConfigErrors = {"dns"}
    /\ routes # routesBefore

(***************************************************************************)
(* Properties of a network error in a pool call (under Spec)               *)
(***************************************************************************)
\* C36: a NetworkError, which reaches _execute_with_pool as the base client
\* error, ends the call in the same step with that error: the call selects
\* no further key and sends no further request, and the breakers and the
\* pool's request, success and failure counters are left as they were.
C36_NetworkErrorEndsCall ==
    [][\A c \in Calls :
        /\ (Responded(c) /\ outcome'[c].kind = "Client") =>
              /\ pc'[c] = "done"
              /\ result'[c] = outcome'[c]
              /\ UNCHANGED <<key, attempts, requests, cursor, tokens, locked>>
              /\ UNCHANGED <<breaker, totalRequests, totalSuccesses, totalFailures>>
        /\ (pc[c] = "done" /\ result[c].kind = "Client") =>
              UNCHANGED <<pc[c], result[c], key[c], requests[c]>>
    ]_vars

\* A call ended by a network error on its second key, after a 500 on the
\* first, with no failure recorded for the second key
C36_Witness ==
    \E c \in Calls :
        /\ pc[c] = "done" /\ result[c].kind = "Client"
        /\ attempts[c] = 2 /\ responses[c] = 2
        /\ totalRequests[key[c]] = 1
        /\ totalFailures[key[c]] = 0
        /\ breaker[key[c]].failures = 0
        /\ \E k \in 1..numKeys : k # key[c] /\ totalFailures[k] = 1

(***************************************************************************)
(* Properties of the last attempt of a pool call (under Spec)              *)
(***************************************************************************)
\* C37: a call whose last permitted attempt failed returns its error
\* without a further sleep: it is never asleep in the pool's except clause
\* (30 s after an overload, retryAfter after a rate limit) with its
\* attempts used up.
C37_NoSleepAfterLastAttempt ==
    \A c \in Calls : pc[c] = "sleep" => attempts[c] < PoolMaxAttempts

(***************************************************************************)
(* Properties of the wait inside the selection lock (under Spec)           *)
(***************************************************************************)
\* Call c waits for a token in the fallback of _select_key
WaitsInFallback(c) == pc[c] = "acquire"

\* Call c comes out of _select_key with a key in this step
CompletesSelection(c) ==
    /\ pc[c] \in {"idle", "http", "sleep", "lock", "acquire"}
    /\ pc'[c] = "http"
    /\ requests'[c] = requests[c] + 1

\* Some key other than k could be handed out at once
OtherKeyReady(k) ==
    \E j \in 1..numKeys :
        j # k /\ tokens[j] >= 1 /\ breaker[j].state = "Closed"

\* C38: the fallback waits for its token with the selection lock held.
\* While a call waits there the lock is held and no other call completes a
\* key selection, whatever the other keys' tokens and breakers; the lock is
\* released only by the waiter getting its token, and a call queued on the
\* lock goes on only when the lock is free.
C38_FallbackBlocksSelection ==
    [][\A w \in Calls :
        WaitsInFallback(w) =>
            /\ locked
            /\ \A c \in Calls \ {w} :
                  /\ ~CompletesSelection(c)
                  /\ key'[c] = key[c]
                  /\ (pc[c] = "lock" => pc'[c] = "lock")
            /\ cursor' = cursor
            /\ ~locked' =>
                  /\ CompletesSelection(w)
                  /\ tokens'[key[w]] = tokens[key[w]] - 1
    ]_vars

\* A call is still suspended in the fallback's acquire() while the other
\* call is queued on the lock and another key, its breaker Closed, has a
\* token
C38_Witness ==
    \E w, c \in Calls :
        /\ WaitsInFallback(w)
        /\ pc[c] = "lock"
        /\ OtherKeyReady(key[w])

(***************************************************************************)
(* Termination of a pool call (under SpecFair)                             *)
(***************************************************************************)
\* Call c has entered _execute_with_pool and has not left it
Running(c) == pc[c] \in {"lock", "acquire", "http", "backoff", "sleep"}

\* C39: under a fair event loop, with a limiter that refills and requests
\* that complete, every call that has started returns or raises.
C39_EveryCallReturns ==
    \A c \in Calls : Running(c) ~> (pc[c] = "done")

\* A call that has raised the overload error of its last attempt, the
\* second or a later one, while the other call has sent a request and
\* ended too
C39_Witness ==
    \E c \in Calls :
        /\ pc[c] = "done"
        /\ attempts[c] = PoolMaxAttempts /\ attempts[c] >= 2
        /\ result[c].kind = "Service"
        /\ \E d \in Calls \ {c} : pc[d] = "done" /\ requests[d] >= 1

(***************************************************************************)
(* Properties of degraded and disabled reports (under SpecHealth)          *)
(***************************************************************************)
\* What a degraded report can be degraded by, as the report words it
DegradedCauses ==
    (IF HysteriaNotRunning \/ (hReport.vpn_type = "hysteria2"
                                /\ ~hReport.hysteria2.socks5_accessible
                                /\ ~hReport.hysteria2.http_accessible)
     THEN {hReport.hysteria2.error} ELSE {})
    \cup (IF hReport.vpn_type # "hysteria2" /\ hReport.interface.error # ""
          THEN {hReport.interface.error} ELSE {})
    \cup (IF InterfaceDown /\ hReport.interface.error = ""
          THEN {"WireGuard interface is down."} ELSE {})
    \cup (IF hReport.vpn_type # "hysteria2" /\ hReport.wireguard.error # ""
          THEN {hReport.wireguard.error} ELSE {})
    \cup (IF ProbeFailed THEN {hReport.probe.error} ELSE {})

\* C40: a report whose status is degraded has at least one entry in its
\* details, none of them empty and one of them naming a condition that
\* degrades it; a report produced with the VPN disabled has status
\* disabled and a skipped probe, and no collector and no probe request ran
\* for it.
C40_DegradedAndDisabledReports ==
    HealthAnswered =>
        /\ hReport.status = "degraded" =>
              /\ hReport.details # <<>>
              /\ \A i \in 1..Len(hReport.details) : hReport.details[i] # ""
              /\ \E i \in 1..Len(hReport.details) :
                    hReport.details[i] \in DegradedCauses
        /\ ~hIn.vpn_enabled =>
              /\ hReport.status = "disabled"
              /\ hReport.probe.status = "skipped"
              /\ hReport.probe.http_status = None
              /\ hRan = {}
        /\ hIn.vpn_enabled => hRan # {}

\* A report degraded by nothing but an interface that is down, with the
\* probe passing
C40_Witness ==
    /\ HealthAnswered
    /\ hReport.status = "degraded"
    /\ hReport.details = <<"WireGuard interface is down.">>
    /\ hReport.probe.status = "ok"
    /\ "collect_interface_status" \in hRan

====
